---- MODULE Spec2Model ----
(***************************************************************************)
(* The search state coordinator of zetacrush-search                        *)
(* (frontend/src/context/SearchContext.tsx, SearchProvider at lines        *)
(* 276-475) together with the views that drive it: SearchBar, ResultsPage  *)
(* and Pagination; the suggestions of the search box; and the text of a    *)
(* result item (extractTopSentences and parseMediaWikiText of              *)
(* utils/helpers, called by SearchResultItem).                             *)
(*                                                                         *)
(* Conventions.                                                            *)
(*  - A JavaScript string is a sequence of one-character strings, so that  *)
(*    trim, parseInt and toString are computed character by character.     *)
(*  - A step of the model is one run-to-completion piece of JavaScript: an *)
(*    event handler, a passive effect, or the continuation of an awaited   *)
(*    request.  The model commits the React state a step sets when the     *)
(*    step ends, and runs the effects that commit makes due after it.      *)
(*  - An effect whose dependencies changed runs after the commit that      *)
(*    changed them and before any other handler or continuation (effects   *)
(*    of a child component before those of its parent).  An effect reads   *)
(*    the state of the render that scheduled it; a callback memoized with  *)
(*    an empty dependency list reads the state of the first render.        *)
(*  - The user acts on a settled page: a handler of a view is taken when   *)
(*    the effects have run and no search request is outstanding.  Requests *)
(*    overlap through the effects, which dispatch without waiting.         *)
(***************************************************************************)
EXTENDS Integers, Sequences, FiniteSets, Bags, TLC

VARIABLES
  query,                 \* useState('')        SearchContext.tsx:277
  searchResults,         \* useState([])        :278
  totalResults,          \* useState(0)         :279
  currentPage,           \* useState(1)         :280
  pageSize,              \* useState(10)        :281
  isLoading,             \* useState(false)     :282
  suggestions,           \* useState([])        :283
  apiHealthy,            \* useState(true)      :284
  hasProcessedUrlParams, \* useRef(false)       :290
  lastSearchQuery,       \* useRef('')          :291
  pathname,              \* router location: "/" or "/results"
  searchParams,          \* router location: the query, page and pageSize parameters
  entryUrl,              \* the location the application was loaded with
  inflight,              \* the bag of search requests awaiting their response
  renderedLoading,       \* isLoading as rendered by the last commit of a handler
  urlEffectDeps,         \* searchParams.toString() the URL effect last ran for
  resultsPageDeps,       \* [query, currentPage] the ResultsPage effect last ran for
  isAnimating,           \* ResultsPage: useState(true)
  userActed,             \* the user has acted since the application was loaded (history)
  last,                  \* what the last step did (history, read by the properties only)
  timeoutId,             \* SearchBar: the pending timer of debounce   SearchBar.tsx:271
  isFetchingSuggestions, \* SearchBar: useState(false)                 SearchBar.tsx:260
  suggestInflight,       \* the bag of suggestion requests awaiting their response
  resultText,            \* SearchResultItem: result.text of the result it shows
  sentenceCount,         \* SearchResultItem: the count it passes to extractTopSentences
  textContent,           \* SearchResultItem: let textContent
  parsedHtml             \* SearchResultItem: useState("")

\* The search box's suggestion fetching.
suggestVars == <<timeoutId, isFetchingSuggestions, suggestInflight>>

\* A result item and the text it displays.
itemVars == <<resultText, sentenceCount, textContent, parsedHtml>>

vars == <<query, searchResults, totalResults, currentPage, pageSize, isLoading,
          suggestions, apiHealthy, hasProcessedUrlParams, lastSearchQuery,
          pathname, searchParams, entryUrl, inflight, renderedLoading,
          urlEffectDeps, resultsPageDeps, isAnimating, userActed, last,
          timeoutId, isFetchingSuggestions, suggestInflight,
          resultText, sentenceCount, textContent, parsedHtml>>

---------------------------------------------------------------------------
(* Bounds of the model. *)

\* Requests outstanding at once: an effect that would dispatch one more is not
\* followed (the chain search -> navigate -> effect -> search can keep two
\* navigating requests for different locations alive for ever).
MaxInFlight == 3
\* The pagination control is followed only to pages -MaxPage..MaxPage.
MaxPage == 2
\* Suggestion requests outstanding at once.
MaxSuggestInFlight == 2
\* The numbers of sentences a result item asks for: 0..MaxCount.
MaxCount == 2

---------------------------------------------------------------------------
(* JavaScript values. *)

\* null where a string is expected (URLSearchParams.get of a missing parameter)
Null == <<"null">>
\* the number NaN (the result of parseInt on a non-numeric string)
NaN == -9999
EmptyString == <<>>

\* Truthiness of a string-or-null: null and '' are falsy.
Truthy(s) == s # Null /\ s # EmptyString

\* x ?? d in place of x || d: 0 is kept.
NumberOr_Nullish(x, d) == IF x = NaN THEN d ELSE x

\* x || d for a number: NaN and 0 are falsy.
NumberOr(x, d) == IF x \in {NaN, 0} THEN d ELSE x

\* data.f || d for a number: a field the record lacks is undefined, falsy.
NumberField(data, f, d) == IF f \in DOMAIN data THEN NumberOr(data[f], d) ELSE d

\* data.f || [] for an array.
ArrayField(data, f) == IF f \in DOMAIN data THEN data[f] ELSE <<>>

\* \s, on the whitespace the model uses
IsWhitespace(c) == c \in {" ", "\n", "\t"}

RECURSIVE TrimStart(_)
TrimStart(s) ==
  IF Len(s) > 0 /\ IsWhitespace(Head(s)) THEN TrimStart(Tail(s)) ELSE s

RECURSIVE TrimEnd(_)
TrimEnd(s) ==
  IF Len(s) > 0 /\ IsWhitespace(s[Len(s)])
  THEN TrimEnd(SubSeq(s, 1, Len(s) - 1))
  ELSE s

\* String.prototype.trim
Trim(s) == TrimEnd(TrimStart(s))

\* A blank test that forgets to trim.
IsBlank_EmptyOnly(s) == s = EmptyString

\* !searchQuery.trim()
IsBlank(s) == Trim(s) = EmptyString

Digits == <<"0", "1", "2", "3", "4", "5", "6", "7", "8", "9">>

IsDigit(c) == \E i \in 1..10 : Digits[i] = c

DigitValue(c) == (CHOOSE i \in 1..10 : Digits[i] = c) - 1

RECURSIVE ParseDigits(_, _)
ParseDigits(s, acc) ==
  IF Len(s) = 0 \/ ~IsDigit(Head(s))
  THEN acc
  ELSE ParseDigits(Tail(s), acc * 10 + DigitValue(Head(s)))

\* parseInt(s, 10): leading whitespace, an optional sign, then digits up to the
\* first character that is not one; NaN when there is no digit.
ParseInt(s) ==
  LET t == TrimStart(s)
      signed == Len(t) > 0 /\ Head(t) \in {"-", "+"}
      body == IF signed THEN Tail(t) ELSE t
  IN  IF Len(body) = 0 \/ ~IsDigit(Head(body)) THEN NaN
      ELSE IF signed /\ Head(t) = "-" THEN 0 - ParseDigits(body, 0)
      ELSE ParseDigits(body, 0)

RECURSIVE NatToString(_)
NatToString(n) ==
  IF n < 10 THEN <<Digits[n + 1]>>
  ELSE NatToString(n \div 10) \o <<Digits[(n % 10) + 1]>>

\* Number.prototype.toString
NumberToString(n) ==
  IF n = NaN THEN <<"N", "a", "N">>
  ELSE IF n < 0 THEN <<"-">> \o NatToString(0 - n)
  ELSE NatToString(n)

\* encodeURIComponent on the characters the model uses: letters, digits and
\* - _ . ! ~ * ' ( ) are kept, every other character is percent-encoded.
PercentEncode(c) ==
  CASE c = " " -> <<"%", "2", "0">>
    [] c = "&" -> <<"%", "2", "6">>
    [] c = "/" -> <<"%", "2", "F">>
    [] OTHER -> <<c>>

RECURSIVE EncodeURIComponent(_)
EncodeURIComponent(s) ==
  IF Len(s) = 0 THEN <<>>
  ELSE PercentEncode(Head(s)) \o EncodeURIComponent(Tail(s))

\* title.replace(/ /g, '_')
SpacesToUnderscores(s) == [i \in 1..Len(s) |-> IF s[i] = " " THEN "_" ELSE s[i]]

\* The fixed prefix of the template literal, kept as one unit.
WikiBase == <<"https://en.wikipedia.org/wiki/">>

\* A url that percent-encodes the title before replacing its spaces.
WikiUrl_EncodeFirst(title) == WikiBase \o SpacesToUnderscores(EncodeURIComponent(title))

WikiUrl(title) == WikiBase \o EncodeURIComponent(SpacesToUnderscores(title))

\* (data.results || []).map(result => ({...result, url: ...}))
ProcessResults(data) ==
  LET results == ArrayField(data, "results")
  IN  [i \in 1..Len(results) |->
         [id |-> results[i].id,
          title |-> results[i].title,
          url |-> WikiUrl(results[i].title)]]

\* result.title.replace throws a TypeError when a result carries no title.
ProcessingThrows(data) ==
  \E i \in 1..Len(ArrayField(data, "results")) :
     "title" \notin DOMAIN ArrayField(data, "results")[i]

---------------------------------------------------------------------------
(* URLSearchParams: the application/x-www-form-urlencoded serializer and   *)
(* parser, on the characters the model uses.  A parameter name is kept as  *)
(* one unit of the string.                                                 *)

HexDigits == <<"0", "1", "2", "3", "4", "5", "6", "7", "8", "9",
               "A", "B", "C", "D", "E", "F">>
LowerHexDigits == <<"0", "1", "2", "3", "4", "5", "6", "7", "8", "9",
                    "a", "b", "c", "d", "e", "f">>

\* The characters of the model that the serializer does not leave as they are
\* (letters, digits and * - . _ are left), with their codes.
SpecialChars == {" ", "%", "&", "+", "/", "="}

CharCode(c) ==
  CASE c = " " -> 32
    [] c = "%" -> 37
    [] c = "&" -> 38
    [] c = "+" -> 43
    [] c = "/" -> 47
    [] c = "=" -> 61

\* The character of a decoded byte; a byte of no character of the model is
\* kept as one opaque unit.
CharOfCode(n) ==
  IF \E c \in SpecialChars : CharCode(c) = n
  THEN CHOOSE c \in SpecialChars : CharCode(c) = n
  ELSE "other"

PercentByte(n) == <<"%", HexDigits[(n \div 16) + 1], HexDigits[(n % 16) + 1]>>

\* A serializer that leaves + as it is.
FormEncode_KeepPlus(c) ==
  IF c = " " THEN <<"+">>
  ELSE IF c \in SpecialChars \ {"+"} THEN PercentByte(CharCode(c))
  ELSE <<c>>

\* The serializer on one character: a space becomes +, the other special
\* characters are percent-encoded.
FormEncode(c) ==
  IF c = " " THEN <<"+">>
  ELSE IF c \in SpecialChars THEN PercentByte(CharCode(c))
  ELSE <<c>>

RECURSIVE FormUrlEncode(_)
FormUrlEncode(s) ==
  IF Len(s) = 0 THEN <<>> ELSE FormEncode(Head(s)) \o FormUrlEncode(Tail(s))

\* URLSearchParams.prototype.toString: name=value joined by &.
RECURSIVE SerializeParams(_)
SerializeParams(pairs) ==
  IF Len(pairs) = 0 THEN <<>>
  ELSE FormUrlEncode(pairs[1][1]) \o <<"=">> \o FormUrlEncode(pairs[1][2])
         \o (IF Len(pairs) > 1 THEN <<"&">> \o SerializeParams(Tail(pairs)) ELSE <<>>)

IsHex(c) == \E i \in 1..16 : HexDigits[i] = c \/ LowerHexDigits[i] = c

HexValue(c) == (CHOOSE i \in 1..16 : HexDigits[i] = c \/ LowerHexDigits[i] = c) - 1

\* The parser is written as functions of the string, so that each string is
\* computed once and then taken by value.

\* Percent-decoding: % followed by two hex digits is one byte, any other % is
\* left as it is.
PercentDecode[s \in Seq(STRING)] ==
  IF Len(s) = 0 THEN <<>>
  ELSE IF Head(s) = "%" /\ Len(s) >= 3 /\ IsHex(s[2]) /\ IsHex(s[3])
  THEN <<CharOfCode(16 * HexValue(s[2]) + HexValue(s[3]))>>
         \o PercentDecode[SubSeq(s, 4, Len(s))]
  ELSE <<Head(s)>> \o PercentDecode[Tail(s)]

PlusToSpace(s) == [i \in 1..Len(s) |-> IF s[i] = "+" THEN " " ELSE s[i]]

FormDecode[s \in Seq(STRING)] == PercentDecode[PlusToSpace(s)]

\* The first position of c in s from `from` on, Len(s) + 1 when there is none.
IndexOf(s, c, from) ==
  CHOOSE k \in from..(Len(s) + 1) :
     /\ k = Len(s) + 1 \/ s[k] = c
     /\ \A h \in from..(k - 1) : s[h] # c

\* The parser: the string is split on &, each piece on its first =, and both
\* halves are decoded; empty pieces are skipped.
ParseSearch[s \in Seq(STRING)] ==
  IF Len(s) = 0 THEN <<>>
  ELSE LET amp == IndexOf(s, "&", 1)
           piece == SubSeq(s, 1, amp - 1)
           rest == SubSeq(s, amp + 1, Len(s))
           eq == IndexOf(piece, "=", 1)
       IN  (IF amp = 1 THEN <<>>
            ELSE << <<FormDecode[SubSeq(piece, 1, eq - 1)],
                      FormDecode[SubSeq(piece, eq + 1, Len(piece))]>> >>)
             \o ParseSearch[rest]

\* URLSearchParams.prototype.get: the value of the first pair of that name,
\* null when there is none.
SearchParamsGet[pairs \in Seq(Seq(Seq(STRING))), name \in STRING] ==
  IF \E i \in 1..Len(pairs) : pairs[i][1] = <<name>>
  THEN pairs[CHOOSE i \in 1..Len(pairs) :
               /\ pairs[i][1] = <<name>>
               /\ \A j \in 1..(i - 1) : pairs[j][1] # <<name>>][2]
  ELSE Null

\* What useSearchParams reads of a location whose search string is search.
ReadLocation[search \in Seq(STRING)] ==
  [query |-> SearchParamsGet[ParseSearch[search], "query"],
   page |-> SearchParamsGet[ParseSearch[search], "page"],
   pageSize |-> SearchParamsGet[ParseSearch[search], "pageSize"]]

---------------------------------------------------------------------------
(* The inputs of the model: what the user types, the locations the        *)
(* application is loaded with, and what the search API answers.           *)

TypedValues == {EmptyString, <<" ">>, <<"a">>, <<"a", "b", " ">>}

NoParams == [query |-> Null, page |-> Null, pageSize |-> Null]

IncomingUrls ==
  { [pathname |-> "/", search |-> NoParams],
    [pathname |-> "/results",
     search |-> [query |-> <<"a">>, page |-> Null, pageSize |-> Null]],
    [pathname |-> "/results",
     search |-> [query |-> <<"a", "b">>, page |-> <<"-", "1">>, pageSize |-> <<"1">>]],
    [pathname |-> "/results",
     search |-> [query |-> <<" ">>, page |-> <<"x">>, pageSize |-> Null]] }

Cat == [id |-> "1", title |-> <<"C", "a", "t">>]
TomAndJerry == [id |-> "2", title |-> <<"T", " ", "&", " ", "J">>]
Untitled == [id |-> "3"]

\* Every answer carries at most page_size (10 when absent) results.
Responses ==
  { [results |-> <<Cat, TomAndJerry>>, total |-> 3, page |-> 1, page_size |-> 2,
     suggest |-> << <<"a", "b">> >>],
    [status |-> "ok"],
    [results |-> <<TomAndJerry>>, total |-> 1, page |-> 0, page_size |-> 0,
     suggest |-> <<>>],
    [results |-> <<Cat>>, total |-> 2, page |-> -1, page_size |-> 1],
    [results |-> <<Untitled>>, total |-> 1, page |-> 1, page_size |-> 10] }

\* /api/health: status === 'ok' && elasticsearch === true
HealthAnswers == {TRUE, FALSE}

---------------------------------------------------------------------------
(* What the properties read of the last step. *)

NoStep == [kind |-> "none"]

Call(by, q, page, size, nav, outcome) ==
  [kind |-> "call", by |-> by, query |-> q, page |-> page, size |-> size,
   nav |-> nav, outcome |-> outcome]

\* A rejected request carries no response.
NoData == [failed |-> TRUE]

\* The catch block does not rethrow: the promise of the async function is
\* fulfilled on every path.
PromiseAfterCatch == "fulfilled"

Settled(outcome, req, data) ==
  [kind |-> "settle", outcome |-> outcome, req |-> req, data |-> data,
   returned |-> IF outcome = "success" THEN "fulfilled" ELSE PromiseAfterCatch]

\* A click on a button of Pagination.
PageChanged(page) == [kind |-> "pageChange", page |-> page]

\* let timeoutId: no timer is pending (clearTimeout of it does nothing).
NoTimer == [pending |-> FALSE]

\* setTimeout(() => func(...args), delay)
Timer(value) == [pending |-> TRUE, value |-> value]

---------------------------------------------------------------------------
(* The initial state: the providers have mounted and no effect has run.    *)

ProviderInit ==
  /\ query = EmptyString
  /\ searchResults = <<>>
  /\ totalResults = 0
  /\ currentPage = 1
  /\ pageSize = 10
  /\ isLoading = FALSE
  /\ suggestions = <<>>
  /\ apiHealthy = TRUE
  /\ hasProcessedUrlParams = FALSE
  /\ lastSearchQuery = EmptyString
  /\ entryUrl \in IncomingUrls
  /\ pathname = entryUrl.pathname
  /\ searchParams = entryUrl.search
  /\ inflight = EmptyBag
  /\ renderedLoading = FALSE
  /\ urlEffectDeps = <<>>
  /\ resultsPageDeps = <<>>
  /\ isAnimating = (entryUrl.pathname = "/results")
  /\ userActed = FALSE
  /\ last = NoStep

\* No timer of the search box is pending, and no result item is shown.
Init ==
  /\ ProviderInit
  /\ timeoutId = NoTimer
  /\ isFetchingSuggestions = FALSE
  /\ suggestInflight = EmptyBag
  /\ resultText = EmptyString
  /\ sentenceCount = 0
  /\ textContent = EmptyString
  /\ parsedHtml = EmptyString

---------------------------------------------------------------------------
(* Rendering: which effects are due, and what the views show. *)

\* useEffect(..., [searchParams.toString()])   SearchContext.tsx:347
UrlEffectDue == urlEffectDeps # <<searchParams>>

\* const currentPage = parseInt(searchParams.get('page') || '1', 10)
UrlPage(params) == ParseInt(IF Truthy(params.page) THEN params.page ELSE <<"1">>)

\* useEffect(..., [query, currentPage]) of the mounted ResultsPage
ResultsPageEffectDue ==
  /\ pathname = "/results"
  /\ resultsPageDeps # <<query, UrlPage(searchParams)>>

EffectsDue == UrlEffectDue \/ ResultsPageEffectDue

\* <SearchBar isHomePage={true}/> on HomePage, isHomePage={isAnimating} on ResultsPage
IsHomePage == IF pathname = "/" THEN TRUE ELSE isAnimating

\* The route element changes with the path: a ResultsPage that mounts starts
\* with isAnimating = useState(true) and runs its effects for the first time.
RouteChange(newPath) ==
  /\ isAnimating' = IF newPath # pathname THEN newPath = "/results" ELSE isAnimating
  /\ resultsPageDeps' = IF newPath # pathname THEN <<>> ELSE resultsPageDeps

\* The user acts on a settled page: its effects have run and no request is
\* outstanding.
UserCanAct == ~EffectsDue /\ inflight = EmptyBag

\* Math.ceil(totalResults / pageSize)
TotalPages == (totalResults + pageSize - 1) \div pageSize

Max(a, b) == IF a > b THEN a ELSE b
Min(a, b) == IF a < b THEN a ELSE b

VisiblePages == 10

\* getPageRange
PageRangeEnd == Min(TotalPages, Max(1, currentPage - (VisiblePages \div 2)) + VisiblePages - 1)
\* getPageRange without its adjustment of startPage near the last page.
PageRangeStart_Unadjusted == Max(1, currentPage - (VisiblePages \div 2))

PageRangeStart == Max(1, PageRangeEnd - VisiblePages + 1)
getPageRange == PageRangeStart..PageRangeEnd

\* Array.from({ length: endPage - startPage + 1 }, (_, i) => startPage + i)
pageRange ==
  [i \in 1..(PageRangeEnd - PageRangeStart + 1) |-> PageRangeStart + (i - 1)]

\* ResultsPage renders Pagination when !isLoading && searchResults.length > 0;
\* Pagination renders nothing when totalPages <= 1 || isLoading (with a
\* negative pageSize the quotient is at most 0: nothing is rendered).
PaginationShown ==
  /\ pathname = "/results"
  /\ ~isLoading
  /\ Len(searchResults) > 0
  /\ pageSize > 0
  /\ TotalPages > 1

\* The pages the buttons of Pagination pass to onPageChange.
PageButtons ==
  (IF currentPage # 1 THEN {currentPage - 1} ELSE {})
    \cup getPageRange
    \cup (IF PageRangeEnd < TotalPages THEN {TotalPages} ELSE {})
    \cup (IF currentPage # TotalPages THEN {currentPage + 1} ELSE {})

---------------------------------------------------------------------------
(* SearchProvider: the search operations. *)

\* setSearchResults([]); setTotalResults(0); setSuggestions([])   (blank query)
ClearForBlankQuery ==
  /\ searchResults' = <<>>
  /\ totalResults' = 0
  /\ suggestions' = <<>>

\* A catch block that only logs.
ClearAfterFailure_OnlyLogs == UNCHANGED <<searchResults, totalResults, suggestions>>

\* setSearchResults([]); setTotalResults(0); setSuggestions([])   (catch block)
ClearAfterFailure ==
  /\ searchResults' = <<>>
  /\ totalResults' = 0
  /\ suggestions' = <<>>

\* A search that never clears its loading flag.
LoadingAfterSettle_Never(outcome) == isLoading

\* setIsLoading(false) at the end of the try block instead of the finally block.
LoadingAfterSettle_TryOnly(outcome) == IF outcome = "success" THEN FALSE ELSE isLoading

\* finally { setIsLoading(false) }: on every outcome of the request.
LoadingAfterSettle(outcome) == FALSE

\* The part of performSearchInternal before its await.  loadingSeen is the
\* isLoading of the closure the function was created in.
performSearchInternal(by, searchQuery, page, size, shouldNavigate, loadingSeen) ==
  IF IsBlank(searchQuery) THEN
    /\ ClearForBlankQuery
    /\ UNCHANGED <<isLoading, inflight>>
    /\ last' = Call(by, searchQuery, page, size, shouldNavigate, "blank")
  ELSE IF loadingSeen THEN
    /\ UNCHANGED <<searchResults, totalResults, suggestions, isLoading, inflight>>
    /\ last' = Call(by, searchQuery, page, size, shouldNavigate, "skipped")
  ELSE
    /\ isLoading' = TRUE
    /\ inflight' = inflight (+) SetToBag({[query |-> searchQuery, page |-> page,
                                            size |-> size, nav |-> shouldNavigate]})
    /\ UNCHANGED <<searchResults, totalResults, suggestions>>
    /\ last' = Call(by, searchQuery, page, size, shouldNavigate, "dispatched")

\* A search that is refused while the API is reported down.
SkipWhenUnhealthy == ~apiHealthy

\* useCallback(..., []) keeps the function of the first render, whose
\* performSearchInternal closes over that render's isLoading = useState(false).
FirstRenderIsLoading == FALSE

\* The public search function.
performSearch(searchQuery, page, size) ==
  /\ hasProcessedUrlParams' = FALSE
  /\ performSearchInternal("performSearch", searchQuery, page, size, TRUE,
                           FirstRenderIsLoading)

\* navigate({pathname: '/results', search: params.toString()})
ResultsLocation(req) ==
  ReadLocation[SerializeParams(<< << <<"query">>, req.query >>,
                                  << <<"page">>, NumberToString(req.page) >>,
                                  << <<"pageSize">>, NumberToString(req.size) >> >>)]

\* A continuation that drops the response when another request is outstanding.
ResponseDropped_WhenNotAlone(req) == BagCardinality(inflight) > 1

\* performSearchInternal awaits apiClient.get and stores what it returns: it
\* keeps no request counter and aborts nothing, so the continuation of every
\* request stores its response, whichever request was issued last.
ResponseDropped(req) == FALSE

\* The continuation of performSearchInternal after a response arrived.
Resolve(req, data) ==
  LET newPath == IF req.nav THEN "/results" ELSE pathname
  IN
  /\ ~EffectsDue
  /\ BagIn(req, inflight)
  /\ inflight' = inflight (-) SetToBag({req})
  /\ isLoading' = LoadingAfterSettle(IF ProcessingThrows(data) THEN "threw" ELSE "success")
  /\ renderedLoading' = isLoading'
  /\ IF ProcessingThrows(data) THEN
       /\ ClearAfterFailure
       /\ UNCHANGED <<currentPage, pageSize, apiHealthy, pathname, searchParams,
                      isAnimating, resultsPageDeps>>
       /\ last' = Settled("threw", req, data)
     ELSE IF ResponseDropped(req) THEN
       /\ UNCHANGED <<searchResults, totalResults, suggestions, currentPage,
                      pageSize, apiHealthy, pathname, searchParams, isAnimating,
                      resultsPageDeps>>
       /\ last' = Settled("dropped", req, data)
     ELSE
       /\ searchResults' = ProcessResults(data)
       /\ totalResults' = NumberField(data, "total", 0)
       /\ currentPage' = NumberField(data, "page", 1)
       /\ pageSize' = NumberField(data, "page_size", 10)
       /\ suggestions' = ArrayField(data, "suggest")
       /\ pathname' = newPath
       /\ searchParams' = IF req.nav THEN ResultsLocation(req) ELSE searchParams
       /\ RouteChange(newPath)
       /\ apiHealthy' = TRUE
       /\ last' = Settled("success", req, data)
  /\ UNCHANGED <<query, hasProcessedUrlParams, lastSearchQuery, entryUrl,
                 urlEffectDeps>>
  /\ UNCHANGED userActed
  /\ UNCHANGED suggestVars
  /\ UNCHANGED itemVars

\* A catch block that sends the failed request again.
OutstandingAfterFailure_Retry(req) == inflight

\* catch (error) { console.error(...); setSearchResults([]); ... }: the failed
\* request is over and the catch block sends nothing.
OutstandingAfterFailure(req) == inflight (-) SetToBag({req})

\* The continuation of performSearchInternal after the request failed.
Reject(req) ==
  /\ ~EffectsDue
  /\ BagIn(req, inflight)
  /\ inflight' = OutstandingAfterFailure(req)
  /\ ClearAfterFailure
  /\ isLoading' = LoadingAfterSettle("rejected")
  /\ renderedLoading' = isLoading'
  /\ last' = Settled("rejected", req, NoData)
  /\ UNCHANGED <<query, currentPage, pageSize, apiHealthy, hasProcessedUrlParams,
                 lastSearchQuery, pathname, searchParams, entryUrl,
                 urlEffectDeps, resultsPageDeps, isAnimating>>
  /\ UNCHANGED userActed
  /\ UNCHANGED suggestVars
  /\ UNCHANGED itemVars

\* The effect on the URL parameters.
UrlParamsEffect ==
  LET queryParam == searchParams.query
      pageParam == searchParams.page
      pageSizeParam == searchParams.pageSize
      newQuery == IF Truthy(queryParam) THEN queryParam ELSE query
  IN
  /\ UrlEffectDue
  /\ ~ResultsPageEffectDue
  /\ BagCardinality(inflight) < MaxInFlight
  /\ urlEffectDeps' = <<searchParams>>
  /\ IF hasProcessedUrlParams /\ queryParam = lastSearchQuery THEN
       /\ UNCHANGED <<query, lastSearchQuery, currentPage, pageSize,
                      hasProcessedUrlParams, searchResults, totalResults,
                      suggestions, isLoading, inflight>>
       /\ last' = NoStep
     ELSE
       /\ query' = newQuery
       /\ lastSearchQuery' = IF Truthy(queryParam) THEN queryParam ELSE lastSearchQuery
       /\ currentPage' = IF Truthy(pageParam)
                         THEN NumberOr(ParseInt(pageParam), 1) ELSE currentPage
       /\ pageSize' = IF Truthy(pageSizeParam)
                      THEN NumberOr(ParseInt(pageSizeParam), 10) ELSE pageSize
       /\ IF Truthy(queryParam) /\ ~hasProcessedUrlParams THEN
            /\ hasProcessedUrlParams' = TRUE
            /\ performSearchInternal(
                 "urlEffect", queryParam,
                 IF Truthy(pageParam) THEN ParseInt(pageParam) ELSE 1,
                 IF Truthy(pageSizeParam) THEN ParseInt(pageSizeParam) ELSE 10,
                 FALSE, renderedLoading)
          ELSE
            /\ UNCHANGED <<hasProcessedUrlParams, searchResults, totalResults,
                           suggestions, isLoading, inflight>>
            /\ last' = NoStep
  /\ renderedLoading' = isLoading'
  /\ UNCHANGED <<apiHealthy, pathname, searchParams, entryUrl,
                 resultsPageDeps, isAnimating>>
  /\ UNCHANGED userActed
  /\ UNCHANGED suggestVars
  /\ UNCHANGED itemVars

\* checkApiHealth (on mount and every 30 minutes), from the arrival of the
\* probe's outcome: healthy is status === 'ok' && elasticsearch === true of the
\* answer, false in the catch block.
checkApiHealth(healthy) ==
  /\ ~EffectsDue
  /\ apiHealthy' = healthy
  /\ last' = NoStep
  /\ UNCHANGED <<query, searchResults, totalResults, currentPage, pageSize,
                 isLoading, suggestions, hasProcessedUrlParams,
                 lastSearchQuery, pathname, searchParams, entryUrl, inflight,
                 renderedLoading, urlEffectDeps, resultsPageDeps, isAnimating>>
  /\ UNCHANGED userActed
  /\ UNCHANGED suggestVars
  /\ UNCHANGED itemVars

---------------------------------------------------------------------------
(* ResultsPage. *)

\* useEffect(() => { if (query) performSearch(query, currentPage) }, [query, currentPage])
ResultsPageEffect ==
  /\ ResultsPageEffectDue
  /\ BagCardinality(inflight) < MaxInFlight
  /\ resultsPageDeps' = <<query, UrlPage(searchParams)>>
  /\ IF Truthy(query) THEN
       performSearch(query, UrlPage(searchParams), 10)
     ELSE
       /\ UNCHANGED <<hasProcessedUrlParams, searchResults, totalResults,
                      suggestions, isLoading, inflight>>
       /\ last' = NoStep
  /\ renderedLoading' = IF UrlEffectDue THEN renderedLoading ELSE isLoading'
  /\ UNCHANGED <<query, currentPage, pageSize, apiHealthy, lastSearchQuery,
                 pathname, searchParams, entryUrl, urlEffectDeps, isAnimating>>
  /\ UNCHANGED userActed
  /\ UNCHANGED suggestVars
  /\ UNCHANGED itemVars

\* setTimeout(() => setIsAnimating(false), 400)
AnimationTimer ==
  /\ ~EffectsDue
  /\ pathname = "/results"
  /\ isAnimating
  /\ isAnimating' = FALSE
  /\ last' = NoStep
  /\ UNCHANGED <<query, searchResults, totalResults, currentPage, pageSize,
                 isLoading, suggestions, apiHealthy, hasProcessedUrlParams,
                 lastSearchQuery, pathname, searchParams, entryUrl, inflight,
                 renderedLoading, urlEffectDeps, resultsPageDeps>>
  /\ UNCHANGED userActed
  /\ UNCHANGED suggestVars
  /\ UNCHANGED itemVars

\* setSearchParams({ query: query, page: page.toString() })
handlePageChange(page) ==
  /\ UserCanAct
  /\ userActed' = TRUE
  /\ UNCHANGED suggestVars
  /\ UNCHANGED itemVars
  /\ PaginationShown
  /\ page \in PageButtons
  /\ page \in (0 - MaxPage)..MaxPage
  /\ searchParams' = ReadLocation[SerializeParams(
                         << << <<"query">>, query >>,
                            << <<"page">>, NumberToString(page) >> >>)]
  /\ last' = PageChanged(page)
  /\ UNCHANGED <<query, searchResults, totalResults, currentPage, pageSize,
                 isLoading, suggestions, apiHealthy, hasProcessedUrlParams,
                 lastSearchQuery, pathname, entryUrl, inflight,
                 renderedLoading, urlEffectDeps, resultsPageDeps, isAnimating>>

\* <Link to="/"> of the ResultsPage header
HomeLink ==
  /\ UserCanAct
  /\ userActed' = TRUE
  /\ UNCHANGED suggestVars
  /\ UNCHANGED itemVars
  /\ pathname = "/results"
  /\ pathname' = "/"
  /\ searchParams' = NoParams
  /\ RouteChange("/")
  /\ last' = NoStep
  /\ UNCHANGED <<query, searchResults, totalResults, currentPage, pageSize,
                 isLoading, suggestions, apiHealthy, hasProcessedUrlParams,
                 lastSearchQuery, entryUrl, inflight, renderedLoading,
                 urlEffectDeps>>

\* The browser's Back to the entry the application was loaded with (popstate).
BackToEntry ==
  /\ UserCanAct
  /\ userActed' = TRUE
  /\ UNCHANGED suggestVars
  /\ UNCHANGED itemVars
  /\ <<pathname, searchParams>> # <<entryUrl.pathname, entryUrl.search>>
  /\ pathname' = entryUrl.pathname
  /\ searchParams' = entryUrl.search
  /\ RouteChange(entryUrl.pathname)
  /\ last' = NoStep
  /\ UNCHANGED <<query, searchResults, totalResults, currentPage, pageSize,
                 isLoading, suggestions, apiHealthy, hasProcessedUrlParams,
                 lastSearchQuery, entryUrl, inflight, renderedLoading,
                 urlEffectDeps>>

---------------------------------------------------------------------------
(* SearchBar.  Its own state (inputValue, showSuggestions) is what the user *)
(* typed: the handlers take it as their input.                             *)

\* The form is submitted through its button, which is disabled={isLoading}.
handleSubmit(inputValue) ==
  /\ UserCanAct
  /\ userActed' = TRUE
  /\ UNCHANGED suggestVars
  /\ UNCHANGED itemVars
  /\ ~isLoading
  /\ IF Truthy(inputValue) /\ Truthy(Trim(inputValue)) THEN
            /\ performSearch(Trim(inputValue), 1, 10)
       /\ UNCHANGED <<pathname, searchParams, isAnimating, resultsPageDeps>>
     ELSE IF IsHomePage THEN
       /\ last' = NoStep
       /\ UNCHANGED <<hasProcessedUrlParams, searchResults, totalResults,
                      suggestions, isLoading, inflight, pathname, searchParams,
                      isAnimating, resultsPageDeps>>
     ELSE
       /\ pathname' = "/"
       /\ searchParams' = NoParams
       /\ RouteChange("/")
       /\ last' = NoStep
       /\ UNCHANGED <<hasProcessedUrlParams, searchResults, totalResults,
                      suggestions, isLoading, inflight>>
  /\ renderedLoading' = isLoading'
  /\ UNCHANGED <<query, currentPage, pageSize, apiHealthy, lastSearchQuery,
                 entryUrl, urlEffectDeps>>

\* A click on an entry of the suggestion list.  (The quick-search buttons call
\* the same handler with strings built from the input; they are not followed.)
handleSuggestionClick(suggestion) ==
  /\ UserCanAct
  /\ userActed' = TRUE
  /\ UNCHANGED suggestVars
  /\ UNCHANGED itemVars
  /\ \E i \in 1..Len(suggestions) : suggestions[i] = suggestion
  /\ query' = suggestion
  /\ performSearch(suggestion, 1, 10)
  /\ renderedLoading' = isLoading'
  /\ UNCHANGED <<currentPage, pageSize, apiHealthy, lastSearchQuery, pathname,
                 searchParams, entryUrl, urlEffectDeps, resultsPageDeps,
                 isAnimating>>

\* The clear button.
handleClearInput ==
  LET newPath == IF ~IsHomePage /\ pathname = "/results" THEN "/" ELSE pathname
  IN
  /\ UserCanAct
  /\ userActed' = TRUE
  /\ UNCHANGED suggestVars
  /\ UNCHANGED itemVars
  /\ query' = EmptyString
  /\ pathname' = newPath
  /\ searchParams' = IF newPath # pathname THEN NoParams ELSE searchParams
  /\ RouteChange(newPath)
  /\ last' = NoStep
  /\ UNCHANGED <<searchResults, totalResults, currentPage, pageSize, isLoading,
                 suggestions, apiHealthy, hasProcessedUrlParams, lastSearchQuery,
                 entryUrl, inflight, renderedLoading, urlEffectDeps>>

---------------------------------------------------------------------------
(* Suggestions: the debounced fetcher of SearchBar and fetchSuggestions of *)
(* the provider.  fetchSuggestions is modelled with its request to          *)
(* /api/suggest (SearchContext.tsx:175-196); in the later copy of the      *)
(* function (426-451) the request is commented out, which leaves the blank *)
(* branch and, for any other text, the return of [] without a request.     *)
(* debouncedFetchSuggestions is memoized on fetchSuggestions, which that   *)
(* copy memoizes with no dependencies: the search box has one debounce     *)
(* closure, so one timeoutId.                                              *)

\* What the user types into the search box, and what a caller passes.
TypedTexts ==
  {EmptyString, <<" ">>, <<"a">>, <<" ", "a", " ">>, <<"a", "b">>, <<"a", "b", "c">>}

\* response.data of /api/suggest: a list, an empty list, a body without the
\* field, and null.
NullData == [null |-> TRUE]

SuggestResponses ==
  { [suggestions |-> << <<"a", "b">>, <<"a", "b", "c">> >>],
    [suggestions |-> <<>>],
    [status |-> "ok"],
    NullData }

Keystroke(value, scheduled) ==
  [kind |-> "keystroke", value |-> value, scheduled |-> scheduled]

FetchCall(by, text, outcome) ==
  [kind |-> "fetch", by |-> by, text |-> text, outcome |-> outcome]

\* What the promise of fetchSuggestions settles to.
FetchSettled(outcome, req, promise, value) ==
  [kind |-> "fetchSettle", outcome |-> outcome, req |-> req,
   promise |-> promise, value |-> value]

\* if (!queryText.trim()) { setSuggestions([]); return []; }
SkipsRequest(queryText) == IsBlank(queryText)

\* fetchSuggestions up to its await.
fetchSuggestions(by, queryText) ==
  IF SkipsRequest(queryText) THEN
    /\ suggestions' = <<>>
    /\ UNCHANGED suggestInflight
    /\ last' = FetchSettled("blank", [text |-> queryText, by |-> by], "fulfilled", <<>>)
  ELSE
    /\ suggestInflight' = suggestInflight (+) SetToBag({[text |-> queryText, by |-> by]})
    /\ UNCHANGED suggestions
    /\ last' = FetchCall(by, queryText, "dispatched")

\* A catch block that rethrows.
FailedFetch_Rethrows == [promise |-> "rejected", value |-> <<>>, stored |-> suggestions]

\* catch (error) { console.error(...); setSuggestions([]); return []; }
FailedFetch == [promise |-> "fulfilled", value |-> <<>>, stored |-> <<>>]

\* response.data.suggestions throws a TypeError when the body is null.
SuggestThrows(data) == data = NullData

\* .finally(() => setIsFetchingSuggestions(false)) of the debounced caller.
AfterFetch(req) ==
  isFetchingSuggestions' = IF req.by = "debounced" THEN FALSE ELSE isFetchingSuggestions

\* The continuation of fetchSuggestions after a response arrived.
SuggestResolve(req, data) ==
  /\ BagIn(req, suggestInflight)
  /\ suggestInflight' = suggestInflight (-) SetToBag({req})
  /\ IF SuggestThrows(data) THEN
       /\ suggestions' = FailedFetch.stored
       /\ last' = FetchSettled("threw", req, FailedFetch.promise, FailedFetch.value)
     ELSE
       /\ suggestions' = ArrayField(data, "suggestions")
       /\ last' = FetchSettled("success", req, "fulfilled", ArrayField(data, "suggestions"))
  /\ AfterFetch(req)
  /\ UNCHANGED <<query, searchResults, totalResults, currentPage, pageSize,
                 isLoading, apiHealthy, hasProcessedUrlParams, lastSearchQuery,
                 pathname, searchParams, entryUrl, inflight, renderedLoading,
                 urlEffectDeps, resultsPageDeps, isAnimating, userActed,
                 timeoutId>>
  /\ UNCHANGED itemVars

\* The continuation of fetchSuggestions after the request failed.
SuggestReject(req) ==
  /\ BagIn(req, suggestInflight)
  /\ suggestInflight' = suggestInflight (-) SetToBag({req})
  /\ suggestions' = FailedFetch.stored
  /\ last' = FetchSettled("rejected", req, FailedFetch.promise, FailedFetch.value)
  /\ AfterFetch(req)
  /\ UNCHANGED <<query, searchResults, totalResults, currentPage, pageSize,
                 isLoading, apiHealthy, hasProcessedUrlParams, lastSearchQuery,
                 pathname, searchParams, entryUrl, inflight, renderedLoading,
                 urlEffectDeps, resultsPageDeps, isAnimating, userActed,
                 timeoutId>>
  /\ UNCHANGED itemVars

\* A consumer of the context calls fetchSuggestions itself.
DirectFetch(queryText) ==
  /\ ~EffectsDue
  /\ BagCardinality(suggestInflight) < MaxSuggestInFlight
  /\ fetchSuggestions("direct", queryText)
  /\ UNCHANGED <<query, searchResults, totalResults, currentPage, pageSize,
                 isLoading, apiHealthy, hasProcessedUrlParams, lastSearchQuery,
                 pathname, searchParams, entryUrl, inflight, renderedLoading,
                 urlEffectDeps, resultsPageDeps, isAnimating, userActed,
                 timeoutId, isFetchingSuggestions>>
  /\ UNCHANGED itemVars

\* handleChange with fewer than two characters does not call the debounced
\* function: clearTimeout is not reached.
TimerAfterShortInput == timeoutId

\* handleChange: with two characters or more the debounced function cancels
\* the pending timer and sets a new one for the value.
handleChange(value) ==
  /\ ~EffectsDue
  /\ timeoutId' = IF Len(Trim(value)) >= 2 THEN Timer(value) ELSE TimerAfterShortInput
  /\ last' = Keystroke(value, Len(Trim(value)) >= 2)
  /\ UNCHANGED <<query, searchResults, totalResults, currentPage, pageSize,
                 isLoading, suggestions, apiHealthy, hasProcessedUrlParams,
                 lastSearchQuery, pathname, searchParams, entryUrl, inflight,
                 renderedLoading, urlEffectDeps, resultsPageDeps, isAnimating,
                 userActed, isFetchingSuggestions, suggestInflight>>
  /\ UNCHANGED itemVars

\* The timer set by debounce fires after 300 ms without a new one: the
\* callback of debouncedFetchSuggestions.
debouncedFetchSuggestions ==
  /\ ~EffectsDue
  /\ timeoutId.pending
  /\ BagCardinality(suggestInflight) < MaxSuggestInFlight
  /\ timeoutId' = NoTimer
  /\ IF Len(Trim(timeoutId.value)) >= 2 THEN
       /\ isFetchingSuggestions' = TRUE
       /\ fetchSuggestions("debounced", timeoutId.value)
     ELSE
       /\ last' = NoStep
       /\ UNCHANGED <<isFetchingSuggestions, suggestions, suggestInflight>>
  /\ UNCHANGED <<query, searchResults, totalResults, currentPage, pageSize,
                 isLoading, apiHealthy, hasProcessedUrlParams, lastSearchQuery,
                 pathname, searchParams, entryUrl, inflight, renderedLoading,
                 urlEffectDeps, resultsPageDeps, isAnimating, userActed>>
  /\ UNCHANGED itemVars

\* The home page, and what its search box does while the user types.
SuggestInit == Init /\ entryUrl.pathname = "/"

NextSuggest ==
  \/ UrlParamsEffect
  \/ \E value \in TypedTexts : handleChange(value)
  \/ debouncedFetchSuggestions
  \/ \E queryText \in TypedTexts : DirectFetch(queryText)
  \/ \E req \in BagToSet(suggestInflight) : \E data \in SuggestResponses :
       SuggestResolve(req, data)
  \/ \E req \in BagToSet(suggestInflight) : SuggestReject(req)

SuggestSpec == SuggestInit /\ [][NextSuggest]_vars

---------------------------------------------------------------------------
(* The text helpers (utils/helpers: src/unnamed/part_002).  Each call of   *)
(* String.prototype.replace with a global regular expression is computed   *)
(* on the characters: the place where a match that starts at a position    *)
(* ends (0 when there is none), and what the match is replaced by.         *)

LowerLetters == <<"a", "b", "c", "d", "e", "f", "g", "h", "i", "j", "k", "l",
                  "m", "n", "o", "p", "q", "r", "s", "t", "u", "v", "w", "x",
                  "y", "z">>
UpperLetters == <<"A", "B", "C", "D", "E", "F", "G", "H", "I", "J", "K", "L",
                  "M", "N", "O", "P", "Q", "R", "S", "T", "U", "V", "W", "X",
                  "Y", "Z">>

IsLower(c) == \E k \in 1..26 : LowerLetters[k] = c
IsUpper(c) == \E k \in 1..26 : UpperLetters[k] = c

\* [a-zA-Z]
IsLetter(c) == IsLower(c) \/ IsUpper(c)

\* The character as a regular expression with the i flag compares it.
ToLowerCase(c) ==
  IF IsUpper(c) THEN LowerLetters[CHOOSE k \in 1..26 : UpperLetters[k] = c] ELSE c

\* \w
IsWordChar(c) == IsLetter(c) \/ IsDigit(c) \/ c = "_"

\* The characters . does not match.
LineTerminators == {"\n", "\r"}

CharAt(s, i) == IF i \in 1..Len(s) THEN s[i] ELSE ""

\* The literal lit stands in s at position i.
StartsAt(s, i, lit) ==
  /\ i >= 1
  /\ i + Len(lit) - 1 <= Len(s)
  /\ \A k \in 1..Len(lit) : s[i + k - 1] = lit[k]

StartsAtNoCase(s, i, lit) ==
  /\ i >= 1
  /\ i + Len(lit) - 1 <= Len(s)
  /\ \A k \in 1..Len(lit) : ToLowerCase(s[i + k - 1]) = lit[k]

\* The first position from i on whose character is in C; past the end of s
\* when there is none.
FirstChar(s, i, C) ==
  LET hits == {k \in i..Len(s) : s[k] \in C}
  IN  IF i > Len(s) THEN i
      ELSE IF hits = {} THEN Len(s) + 1
      ELSE CHOOSE k \in hits : \A h \in hits : k <= h

\* The first position from i on whose character is not in C.
FirstNot(s, i, C) ==
  LET hits == {k \in i..Len(s) : s[k] \notin C}
  IN  IF i > Len(s) THEN i
      ELSE IF hits = {} THEN Len(s) + 1
      ELSE CHOOSE k \in hits : \A h \in hits : k <= h

\* The first position from i on where lit stands.
FirstString(s, i, lit) ==
  LET hits == {k \in i..Len(s) : StartsAt(s, k, lit)}
  IN  IF i > Len(s) THEN i
      ELSE IF hits = {} THEN Len(s) + 1
      ELSE CHOOSE k \in hits : \A h \in hits : k <= h

NoLineBreak(s, a, b) == \A k \in a..b : s[k] \notin LineTerminators

\* s.replace(re, ...) with the g flag: matchEnd[i] is the position after the
\* match of re that starts at i (0 when none starts there), replacement[i] what
\* it is replaced by; the text up to the next match is kept and the scan goes
\* on after the match.
RECURSIVE ReplaceFrom(_, _, _, _)
ReplaceFrom(s, matchEnd, replacement, i) ==
  LET starts == {k \in i..Len(s) : matchEnd[k] > 0}
  IN  IF starts = {} THEN SubSeq(s, i, Len(s))
      ELSE LET j == CHOOSE k \in starts : \A h \in starts : k <= h
           IN  SubSeq(s, i, j - 1) \o replacement[j]
                 \o ReplaceFrom(s, matchEnd, replacement, matchEnd[j])

Nothing(s) == [i \in 1..Len(s) |-> <<>>]

\* /\{\{Cite[^}]+\}\}/gi (and the same with cite)
CiteTemplateEnd(s, i) ==
  IF StartsAtNoCase(s, i, <<"{", "{", "c", "i", "t", "e">>)
  THEN LET j == FirstChar(s, i + 6, {"}"})
       IN  IF j > i + 6 /\ StartsAt(s, j, <<"}", "}">>) THEN j + 2 ELSE 0
  ELSE 0

RemoveCitationTemplates(s) ==
  ReplaceFrom(s, [i \in 1..Len(s) |-> CiteTemplateEnd(s, i)], Nothing(s), 1)

\* /\{\{[^}]+\}\}/g
TemplateEnd(s, i) ==
  IF StartsAt(s, i, <<"{", "{">>)
  THEN LET j == FirstChar(s, i + 2, {"}"})
       IN  IF j > i + 2 /\ StartsAt(s, j, <<"}", "}">>) THEN j + 2 ELSE 0
  ELSE 0

RemoveTemplates(s) ==
  ReplaceFrom(s, [i \in 1..Len(s) |-> TemplateEnd(s, i)], Nothing(s), 1)

\* /<ref.*?>.*?<\/ref>/g: the first > after <ref, then the first </ref>
\* after it, with no line break in between.
RefEnd(s, i) ==
  IF StartsAt(s, i, <<"<", "r", "e", "f">>)
  THEN LET k == FirstChar(s, i + 4, {">"})
           m == FirstString(s, k + 1, <<"<", "/", "r", "e", "f", ">">>)
       IN  IF k <= Len(s) /\ m <= Len(s) /\ NoLineBreak(s, i + 4, m - 1)
           THEN m + 6 ELSE 0
  ELSE 0

\* /\[\d+\]/g
NumberedRefEnd(s, i) ==
  IF CharAt(s, i) = "["
  THEN LET j == FirstNot(s, i + 1, {Digits[d] : d \in 1..10})
       IN  IF j > i + 1 /\ CharAt(s, j) = "]" THEN j + 1 ELSE 0
  ELSE 0

RemoveReferences(s) ==
  LET noTags == ReplaceFrom(s, [i \in 1..Len(s) |-> RefEnd(s, i)], Nothing(s), 1)
  IN  ReplaceFrom(noTags, [i \in 1..Len(noTags) |-> NumberedRefEnd(noTags, i)],
                  Nothing(noTags), 1)

\* /\[\[([^|]+)\|([^\]]+)\]\]/g: [[ target | text ]], where the target ends at
\* the first | and the text at the first ], which must be ]].
PipedLinkBar(s, i) == FirstChar(s, i + 2, {"|"})
PipedLinkClose(s, i) == FirstChar(s, PipedLinkBar(s, i) + 1, {"]"})

PipedLinkEnd(s, i) ==
  IF /\ StartsAt(s, i, <<"[", "[">>)
     /\ PipedLinkBar(s, i) > i + 2
     /\ PipedLinkBar(s, i) <= Len(s)
     /\ PipedLinkClose(s, i) > PipedLinkBar(s, i) + 1
     /\ StartsAt(s, PipedLinkClose(s, i), <<"]", "]">>)
  THEN PipedLinkClose(s, i) + 2
  ELSE 0

\* $2
PipedLinkText(s, i) ==
  IF PipedLinkEnd(s, i) = 0 THEN <<>>
  ELSE SubSeq(s, PipedLinkBar(s, i) + 1, PipedLinkClose(s, i) - 1)

\* /\[\[([^\]]+)\]\]/g
PlainLinkEnd(s, i) ==
  IF StartsAt(s, i, <<"[", "[">>)
  THEN LET q == FirstChar(s, i + 2, {"]"})
       IN  IF q > i + 2 /\ StartsAt(s, q, <<"]", "]">>) THEN q + 2 ELSE 0
  ELSE 0

\* $1
PlainLinkText(s, i) ==
  IF PlainLinkEnd(s, i) = 0 THEN <<>> ELSE SubSeq(s, i + 2, PlainLinkEnd(s, i) - 3)

\* Remove internal links but keep the display text.
RemoveInternalLinks(s) ==
  LET noPiped == ReplaceFrom(s, [i \in 1..Len(s) |-> PipedLinkEnd(s, i)],
                             [i \in 1..Len(s) |-> PipedLinkText(s, i)], 1)
  IN  ReplaceFrom(noPiped, [i \in 1..Len(noPiped) |-> PlainLinkEnd(noPiped, i)],
                  [i \in 1..Len(noPiped) |-> PlainLinkText(noPiped, i)], 1)

\* /\[http[^\]]+\]/g
HttpLinkEnd(s, i) ==
  IF StartsAt(s, i, <<"[", "h", "t", "t", "p">>)
  THEN LET q == FirstChar(s, i + 5, {"]"})
       IN  IF q > i + 5 /\ q <= Len(s) THEN q + 1 ELSE 0
  ELSE 0

\* /\[(https?:\/\/[^\s\]]+)([^\]]*)\]/g: the address ends at the first
\* whitespace or ], the label at the first ].
UrlLinkAddress(s, i) ==
  IF StartsAt(s, i, <<"[", "h", "t", "t", "p", "s", ":", "/", "/">>) THEN i + 9
  ELSE IF StartsAt(s, i, <<"[", "h", "t", "t", "p", ":", "/", "/">>) THEN i + 8
  ELSE 0

UrlLinkLabel(s, i) == FirstChar(s, UrlLinkAddress(s, i), {" ", "\n", "\t", "]"})

UrlLinkEnd(s, i) ==
  IF /\ UrlLinkAddress(s, i) > 0
     /\ UrlLinkLabel(s, i) > UrlLinkAddress(s, i)
     /\ FirstChar(s, UrlLinkLabel(s, i), {"]"}) <= Len(s)
  THEN FirstChar(s, UrlLinkLabel(s, i), {"]"}) + 1
  ELSE 0

\* $2
UrlLinkText(s, i) ==
  IF UrlLinkEnd(s, i) = 0 THEN <<>>
  ELSE SubSeq(s, UrlLinkLabel(s, i), UrlLinkEnd(s, i) - 2)

RemoveExternalLinks(s) ==
  LET noHttp == ReplaceFrom(s, [i \in 1..Len(s) |-> HttpLinkEnd(s, i)], Nothing(s), 1)
  IN  ReplaceFrom(noHttp, [i \in 1..Len(noHttp) |-> UrlLinkEnd(noHttp, i)],
                  [i \in 1..Len(noHttp) |-> UrlLinkText(noHttp, i)], 1)

\* /\{\|[\s\S]*?\|\}/g
TableEnd(s, i) ==
  IF StartsAt(s, i, <<"{", "|">>)
  THEN LET m == FirstString(s, i + 2, <<"|", "}">>)
       IN  IF m <= Len(s) THEN m + 2 ELSE 0
  ELSE 0

RemoveTables(s) ==
  ReplaceFrom(s, [i \in 1..Len(s) |-> TableEnd(s, i)], Nothing(s), 1)

\* /open(.*?)close/g for a pair of literal delimiters: the first close after
\* the open, with no line break in between.
DelimitedEnd(s, i, open, close) ==
  IF StartsAt(s, i, open)
  THEN LET m == FirstString(s, i + Len(open), close)
       IN  IF m <= Len(s) /\ NoLineBreak(s, i + Len(open), m - 1)
           THEN m + Len(close) ELSE 0
  ELSE 0

\* $1
DelimitedText(s, i, open, close) ==
  IF DelimitedEnd(s, i, open, close) = 0 THEN <<>>
  ELSE SubSeq(s, i + Len(open), DelimitedEnd(s, i, open, close) - Len(close) - 1)

\* s.replace(/open(.*?)close/g, before + '$1' + after)
ReplaceDelimited(s, open, close, before, after) ==
  ReplaceFrom(s, [i \in 1..Len(s) |-> DelimitedEnd(s, i, open, close)],
              [i \in 1..Len(s) |-> IF DelimitedEnd(s, i, open, close) = 0 THEN <<>>
                                   ELSE before \o DelimitedText(s, i, open, close) \o after],
              1)

Bold == <<"'", "'", "'">>
Italic == <<"'", "'">>

\* /===+([^=]+)===+/g: three or more =, a run without =, three or more =.
HeaderEnd(s, i) ==
  IF StartsAt(s, i, <<"=", "=", "=">>)
  THEN LET a == FirstNot(s, i, {"="})
           b == FirstChar(s, a, {"="})
       IN  IF a <= Len(s) /\ StartsAt(s, b, <<"=", "=", "=">>) THEN FirstNot(s, b, {"="}) ELSE 0
  ELSE 0

\* Remove any remaining markup.
RemoveMarkup(s) ==
  LET noBold == ReplaceDelimited(s, Bold, Bold, <<>>, <<>>)
      noItalic == ReplaceDelimited(noBold, Italic, Italic, <<>>, <<>>)
  IN  ReplaceFrom(noItalic, [i \in 1..Len(noItalic) |-> HeaderEnd(noItalic, i)],
                  Nothing(noItalic), 1)

\* s.replace(/\s+/g, ' ')
CollapseWhitespace(s) ==
  ReplaceFrom(s, [i \in 1..Len(s) |-> IF IsWhitespace(s[i])
                                       THEN FirstNot(s, i, {" ", "\n", "\t"})
                                       ELSE 0],
              [i \in 1..Len(s) |-> <<" ">>], 1)

\* extractTopSentences, lines 18-49: the text without its wiki syntax.
CleanWikiText(text) ==
  Trim(CollapseWhitespace(
    RemoveMarkup(
      RemoveTables(
        RemoveExternalLinks(
          RemoveInternalLinks(
            RemoveReferences(
              RemoveTemplates(
                RemoveCitationTemplates(RemoveCitationTemplates(text))))))))))

\* cleaned.split(/[.!?]+/): the pieces between the runs of . ! ? (a piece may
\* be empty).
RECURSIVE SplitSentences(_)
SplitSentences(s) ==
  LET t == FirstChar(s, 1, {".", "!", "?"})
  IN  IF t > Len(s) THEN <<s>>
      ELSE <<SubSeq(s, 1, t - 1)>>
             \o SplitSentences(SubSeq(s, FirstNot(s, t, {".", "!", "?"}), Len(s)))

\* (s.match(/[...]/g) || []).length
CountIn(s, C) == Cardinality({i \in 1..Len(s) : s[i] \in C})

LetterCount(s) == Cardinality({i \in 1..Len(s) : IsLetter(s[i])})

\* if (trimmed.length < 20) return false
LongEnough(trimmed) == Len(trimmed) >= 20

\* letterCount / totalLength < 0.6 is refused
LetterRatioOk(trimmed) == LetterCount(trimmed) * 10 >= Len(trimmed) * 6

\* [{}[\]()=|*#:;]
MarkupChars == {"{", "}", "[", "]", "(", ")", "=", "|", "*", "#", ":", ";"}

FewMarkupChars(trimmed) == CountIn(trimmed, MarkupChars) <= 3

\* [0-9@#$%^&*+=<>]
NumbersAndSymbols == {"0", "1", "2", "3", "4", "5", "6", "7", "8", "9", "@",
                       "#", "$", "%", "^", "&", "*", "+", "=", "<", ">"}

\* numbersAndSymbols > totalLength * 0.3 is refused
FewNumbersAndSymbols(trimmed) ==
  CountIn(trimmed, NumbersAndSymbols) * 10 <= Len(trimmed) * 3

\* /^[A-Z_]+\s*[:=]/
LooksLikeCode(trimmed) ==
  LET a == FirstNot(trimmed, 1, {UpperLetters[k] : k \in 1..26} \cup {"_"})
  IN  a > 1 /\ CharAt(trimmed, FirstNot(trimmed, a, {" ", "\n", "\t"})) \in {":", "="}

\* /^\d+\s*[.:]\s*/
NumberedList(trimmed) ==
  LET a == FirstNot(trimmed, 1, {Digits[d] : d \in 1..10})
  IN  a > 1 /\ CharAt(trimmed, FirstNot(trimmed, a, {" ", "\n", "\t"})) \in {".", ":"}

\* /^[*-]\s+/
BulletPoint(trimmed) ==
  CharAt(trimmed, 1) \in {"*", "-"} /\ CharAt(trimmed, 2) \in {" ", "\n", "\t"}

CommonWords ==
  { <<"t", "h", "e">>,
    <<"a">>,
    <<"a", "n">>,
    <<"a", "n", "d">>,
    <<"o", "r">>,
    <<"b", "u", "t">>,
    <<"i", "n">>,
    <<"o", "n">>,
    <<"a", "t">>,
    <<"t", "o">>,
    <<"f", "o", "r">>,
    <<"o", "f">>,
    <<"w", "i", "t", "h">>,
    <<"b", "y">>,
    <<"f", "r", "o", "m">>,
    <<"i", "s">>,
    <<"a", "r", "e">>,
    <<"w", "a", "s">>,
    <<"w", "e", "r", "e">>,
    <<"b", "e">>,
    <<"b", "e", "e", "n">>,
    <<"b", "e", "i", "n", "g">>,
    <<"h", "a", "v", "e">>,
    <<"h", "a", "s">>,
    <<"h", "a", "d">>,
    <<"d", "o">>,
    <<"d", "o", "e", "s">>,
    <<"d", "i", "d">>,
    <<"w", "i", "l", "l">>,
    <<"w", "o", "u", "l", "d">>,
    <<"c", "o", "u", "l", "d">>,
    <<"s", "h", "o", "u", "l", "d">>,
    <<"m", "a", "y">>,
    <<"m", "i", "g", "h", "t">>,
    <<"c", "a", "n">>,
    <<"t", "h", "i", "s">>,
    <<"t", "h", "a", "t">>,
    <<"t", "h", "e", "s", "e">>,
    <<"t", "h", "o", "s", "e">> }

\* /\b(the|a|an|...)\b/i.test(trimmed)
hasCommonWords(trimmed) ==
  \E i \in 1..Len(trimmed) : \E w \in CommonWords :
     /\ StartsAtNoCase(trimmed, i, w)
     /\ ~IsWordChar(CharAt(trimmed, i - 1))
     /\ ~IsWordChar(CharAt(trimmed, i + Len(w)))

\* A filter that does not ask for a common word.
IsReadable_NoWordCheck(sentence) ==
  LET trimmed == Trim(sentence)
  IN  /\ LongEnough(trimmed)
      /\ LetterRatioOk(trimmed)
      /\ FewMarkupChars(trimmed)
      /\ FewNumbersAndSymbols(trimmed)
      /\ ~LooksLikeCode(trimmed)
      /\ ~NumberedList(trimmed)
      /\ ~BulletPoint(trimmed)

\* The callback of filter.
IsReadable(sentence) ==
  LET trimmed == Trim(sentence)
  IN  /\ LongEnough(trimmed)
      /\ LetterRatioOk(trimmed)
      /\ FewMarkupChars(trimmed)
      /\ FewNumbersAndSymbols(trimmed)
      /\ ~LooksLikeCode(trimmed)
      /\ ~NumberedList(trimmed)
      /\ ~BulletPoint(trimmed)
      /\ hasCommonWords(trimmed)

\* A slice that stops one sentence early.
Slice_OneShort(list, count) == SubSeq(list, 1, Min(count, Len(list)) - 1)

\* sentences.slice(0, count) for a count that is not negative
Slice(list, count) == SubSeq(list, 1, Min(count, Len(list)))

\* topSentences.map(sentence => sentence.trim()).join('. ')
RECURSIVE JoinSentences(_)
JoinSentences(list) ==
  IF Len(list) = 0 THEN <<>>
  ELSE IF Len(list) = 1 THEN Trim(list[1])
  ELSE Trim(list[1]) \o <<".", " ">> \o JoinSentences(Tail(list))

\* s.replace(/\.\s*$/, '') + '.'
EndWithPeriod(s) ==
  LET t == TrimEnd(s)
  IN  (IF Len(t) > 0 /\ t[Len(t)] = "." THEN SubSeq(t, 1, Len(t) - 1) ELSE s) \o <<".">>

extractTopSentences(text, count) ==
  IF ~Truthy(text) THEN <<>>
  ELSE EndWithPeriod(JoinSentences(
         Slice(SelectSeq(SplitSentences(CleanWikiText(text)), IsReadable), count)))

\* `${text}`
TemplateString(text) == IF text = Null THEN <<"n", "u", "l", "l">> ELSE text

\* A catch block that rethrows.
ParseFailed_Rethrows(text) == <<"TypeError">>

\* catch (error) { console.error(...); return `<p>${text}</p>`; }
ParseFailed(text) == <<"<", "p", ">">> \o TemplateString(text) \o <<"<", "/", "p",
                                                           ">">>

\* html.replace throws a TypeError when text is not a string.
ParseThrows(text) == text = Null

\* /\n{2,}/g
ParagraphBreakEnd(s, i) ==
  IF StartsAt(s, i, <<"\n", "\n">>) THEN FirstNot(s, i, {"\n"}) ELSE 0

parseMediaWikiText(text) ==
  IF ParseThrows(text) THEN ParseFailed(text)
  ELSE
    LET marked == ReplaceDelimited(text, <<"<", "m", "a", "r", "k", ">">>, <<"<", "/", "m", "a",
                                                        "r", "k", ">">>,
                    <<"<", "s", "p", "a", "n", " ", "c", "l", "a", "s", "s",
                      "=", "\"", "h", "i", "g", "h", "l", "i", "g", "h", "t",
                      " ", "b", "g", "-", "y", "e", "l", "l", "o", "w", "-",
                      "2", "0", "0", " ", "d", "a", "r", "k", ":", "b", "g",
                      "-", "y", "e", "l", "l", "o", "w", "-", "8", "0", "0",
                      "\"", ">">>,
                    <<"<", "/", "s", "p", "a", "n", ">">>)
        strong == ReplaceDelimited(marked, Bold, Bold, <<"<", "s", "t", "r",
                                                         "o", "n", "g", ">">>, <<"<",
                                                                        "/",
                                                                        "s",
                                                                        "t",
                                                                        "r",
                                                                        "o",
                                                                        "n",
                                                                        "g",
                                                                        ">">>)
        em == ReplaceDelimited(strong, Italic, Italic, <<"<", "e", "m", ">">>, <<"<", "/",
                                                                    "e", "m",
                                                                    ">">>)
        html == ReplaceFrom(em, [i \in 1..Len(em) |-> ParagraphBreakEnd(em, i)],
                            [i \in 1..Len(em) |-> <<"<", "/", "p", ">", "<",
                                                    "p", ">">>], 1)
    IN  IF StartsAt(html, 1, <<"<", "p", ">">>) THEN html
        ELSE <<"<", "p", ">">> \o html \o <<"<", "/", "p", ">">>

\* Article texts: sentences that pass the filter, one that fails each of its
\* tests, and sentences with references, templates, links and bold text.

SentencePlain ==
  <<"T", "h", "e", " ", "c", "a", "t", " ", "i", "s", " ", "a", " ", "s",
    "m", "a", "l", "l", " ", "a", "n", "i", "m", "a", "l", ".", " ">>

SentencePet ==
  <<"I", "t", " ", "i", "s", " ", "k", "e", "p", "t", " ", "a", "s", " ",
    "a", " ", "p", "e", "t", " ", "b", "y", " ", "p", "e", "o", "p", "l",
    "e", "!", " ">>

SentenceTamed ==
  <<"C", "a", "t", "s", " ", "w", "e", "r", "e", " ", "t", "a", "m", "e",
    "d", " ", "i", "n", " ", "t", "h", "e", " ", "N", "e", "a", "r", " ",
    "E", "a", "s", "t", "?", " ">>

SentenceShort ==
  <<"A", " ", "c", "a", "t", ".", " ">>

SentenceDigits ==
  <<"I", "n", " ", "1", "9", "9", "9", " ", "a", "n", "d", " ", "2", "0",
    "0", "4", " ", "t", "h", "e", " ", "1", "2", "3", "4", "5", " ", "6",
    "7", "8", "9", "0", " ", "1", "1", "1", ".", " ">>

SentenceNoCommonWord ==
  <<"C", "a", "t", "s", " ", "c", "h", "a", "s", "e", " ", "m", "i", "c",
    "e", " ", "q", "u", "i", "c", "k", "l", "y", " ", "d", "a", "i", "l",
    "y", ".", " ">>

SentenceCode ==
  <<"N", "A", "M", "E", " ", "=", " ", "t", "h", "e", " ", "v", "a", "l",
    "u", "e", " ", "o", "f", " ", "t", "h", "e", " ", "t", "h", "i", "n",
    "g", ".", " ">>

SentenceBullet ==
  <<"*", " ", "t", "h", "e", " ", "i", "t", "e", "m", " ", "o", "f", " ",
    "t", "h", "e", " ", "l", "i", "s", "t", " ", "h", "e", "r", "e", ".",
    " ">>

SentenceNumbered ==
  <<"1", "2", ":", " ", "t", "h", "e", " ", "f", "i", "r", "s", "t", " ",
    "i", "t", "e", "m", " ", "o", "f", " ", "t", "h", "e", " ", "l", "i",
    "s", "t", ".", " ">>

SentenceBrackets ==
  <<"T", "h", "e", " ", "(", "a", ")", " ", "[", "b", "]", " ", "{", "c",
    "}", " ", "l", "i", "s", "t", " ", "o", "f", " ", "t", "h", "i", "n",
    "g", "s", ".", " ">>

SentenceSymbols ==
  <<"i", "s", "+", "a", "b", "c", "d", "e", "f", "g", "h", "i", "j", "k",
    "1", "2", "3", "4", "5", "6", ".", " ">>

SentenceSelfClosedRef ==
  <<"T", "h", "e", " ", "c", "a", "t", "<", "r", "e", "f", " ", "n", "a",
    "m", "e", "=", "\"", "a", "\"", " ", "/", ">", " ", "i", "s", " ", "a",
    " ", "s", "m", "a", "l", "l", " ", "a", "n", "i", "m", "a", "l", ".",
    " ">>

SentenceRef ==
  <<"T", "h", "e", " ", "c", "a", "t", "<", "r", "e", "f", ">", "S", "m",
    "i", "t", "h", "<", "/", "r", "e", "f", ">", " ", "i", "s", " ", "a",
    " ", "s", "m", "a", "l", "l", " ", "a", "n", "i", "m", "a", "l", "[",
    "1", "]", ".", " ">>

SentenceTemplates ==
  <<"T", "h", "e", " ", "{", "{", "C", "i", "t", "e", " ", "w", "e", "b",
    "|", "u", "r", "l", "=", "x", "}", "}", "c", "a", "t", " ", "i", "s",
    " ", "a", " ", "[", "[", "F", "e", "l", "i", "s", "|", "s", "m", "a",
    "l", "l", "]", "]", " ", "a", "n", "i", "m", "a", "l", ".", " ">>

SentenceMarkup ==
  <<"T", "h", "e", " ", "'", "'", "'", "c", "a", "t", "'", "'", "'", " ",
    "i", "s", " ", "a", " ", "[", "[", "s", "m", "a", "l", "l", "]", "]",
    " ", "a", "n", "i", "m", "a", "l", "{", "{", "I", "n", "f", "o", "b",
    "o", "x", "}", "}", ".", "\n", "\n">>


SentenceExternalLinks ==
  <<"S", "e", "e", " ", "[", "h", "t", "t", "p", ":", "/", "/", "a", ".",
    "o", "r", "g", " ", "t", "h", "e", " ", "s", "i", "t", "e", "]", " ",
    "a", "n", "d", " ", "[", "h", "t", "t", "p", "s", ":", "/", "/", "b",
    ".", "o", "r", "g", "]", " ", "f", "o", "r", " ", "t", "h", "e", " ",
    "c", "a", "t", "s", ".", " ">>

SentenceTable ==
  <<"{", "|", "c", "l", "a", "s", "s", "=", "x", "\n", "|", "a", "\n", "|",
    "}", "T", "h", "e", " ", "'", "'", "c", "a", "t", "'", "'", " ", "i",
    "s", " ", "a", " ", "s", "m", "a", "l", "l", " ", "a", "n", "i", "m",
    "a", "l", ".", " ">>

SentenceHeader ==
  <<"=", "=", "=", "=", " ", "H", "i", "s", "t", "o", "r", "y", " ", "=",
    "=", "=", "=", "\n", "T", "h", "e", " ", "c", "a", "t", " ", "i", "s",
    " ", "a", " ", "<", "m", "a", "r", "k", ">", "s", "m", "a", "l", "l",
    "<", "/", "m", "a", "r", "k", ">", " ", "a", "n", "i", "m", "a", "l",
    ".", " ">>

SentenceNestedTemplate ==
  <<"T", "h", "e", " ", "{", "{", "a", " ", "{", "{", "b", "}", "}", " ",
    "c", "}", "}", " ", "c", "a", "t", " ", "i", "s", " ", "a", " ", "s",
    "m", "a", "l", "l", " ", "a", "n", "i", "m", "a", "l", ".", " ">>

SentenceCaption ==
  <<"[", "[", "F", "i", "l", "e", ":", "C", "a", "t", ".", "j", "p", "g",
    "|", "t", "h", "u", "m", "b", "|", "A", " ", "c", "a", "t", " ", "[",
    "s", "i", "c", "]", " ", "s", "a", "t", "]", "]", " ", "T", "h", "e",
    " ", "c", "a", "t", " ", "i", "s", " ", "a", " ", "s", "m", "a", "l",
    "l", " ", "a", "n", "i", "m", "a", "l", ".", " ">>

\* A link to the article of a year.
SentenceNumericLink ==
  <<"C", "a", "t", "s", " ", "w", "e", "r", "e", " ", "t", "a", "m", "e",
    "d", " ", "i", "n", " ", "[", "[", "1", "9", "9", "0", "]", "]", " ",
    "b", "y", " ", "t", "h", "e", " ", "p", "e", "o", "p", "l", "e", ".",
    " ">>

Sentences ==
  {SentencePlain, SentencePet, SentenceTamed,
   SentenceShort, SentenceDigits, SentenceNoCommonWord,
   SentenceCode, SentenceBullet, SentenceNumbered,
   SentenceBrackets, SentenceSymbols, SentenceSelfClosedRef,
   SentenceRef, SentenceTemplates, SentenceMarkup,
   SentenceExternalLinks, SentenceTable, SentenceHeader,
   SentenceNestedTemplate, SentenceCaption, SentenceNumericLink}

\* One sentence, two sentences of which the first is one of three, and the
\* three sentences that pass the filter.
WikiTexts ==
  {EmptyString}
    \cup Sentences
    \cup {s \o t : s \in {SentencePlain, SentenceSelfClosedRef, SentenceTemplates},
                   t \in Sentences}
    \cup {SentencePlain \o SentencePet \o SentenceTamed}

\* result.text, and null for a result that carries no text.
ItemTexts == WikiTexts \cup {Null}

\* SearchResultItem, useEffect(..., [result]):
\*   textContent = extractTopSentences(result.text, count);
\*   setParsedHtml(parseMediaWikiText(textContent))
SearchResultItemEffect ==
  /\ last = NoStep
  /\ textContent' = extractTopSentences(resultText, sentenceCount)
  /\ parsedHtml' = parseMediaWikiText(textContent')
  /\ last' = [kind |-> "item"]
  /\ UNCHANGED <<query, searchResults, totalResults, currentPage, pageSize,
                 isLoading, suggestions, apiHealthy, hasProcessedUrlParams,
                 lastSearchQuery, pathname, searchParams, entryUrl, inflight,
                 renderedLoading, urlEffectDeps, resultsPageDeps, isAnimating,
                 userActed, resultText, sentenceCount>>
  /\ UNCHANGED suggestVars

\* parseMediaWikiText applied to the text itself.
ParseText ==
  /\ last = NoStep
  /\ parsedHtml' = parseMediaWikiText(resultText)
  /\ last' = [kind |-> "parse"]
  /\ UNCHANGED <<query, searchResults, totalResults, currentPage, pageSize,
                 isLoading, suggestions, apiHealthy, hasProcessedUrlParams,
                 lastSearchQuery, pathname, searchParams, entryUrl, inflight,
                 renderedLoading, urlEffectDeps, resultsPageDeps, isAnimating,
                 userActed, resultText, sentenceCount, textContent>>
  /\ UNCHANGED suggestVars

\* A result item is given a text and a number of sentences to show.
ItemInit ==
  /\ ProviderInit
  /\ entryUrl.pathname = "/"
  /\ timeoutId = NoTimer
  /\ isFetchingSuggestions = FALSE
  /\ suggestInflight = EmptyBag
  /\ resultText \in ItemTexts
  /\ sentenceCount \in 0..MaxCount
  /\ textContent = EmptyString
  /\ parsedHtml = EmptyString

NextItem == SearchResultItemEffect \/ ParseText

ItemSpec == ItemInit /\ [][NextItem]_vars

---------------------------------------------------------------------------

Next ==
  \/ UrlParamsEffect
  \/ ResultsPageEffect
  \/ \E req \in BagToSet(inflight) : \E data \in Responses : Resolve(req, data)
  \/ \E req \in BagToSet(inflight) : Reject(req)
  \/ \E healthy \in HealthAnswers : checkApiHealth(healthy)
  \/ AnimationTimer
  \/ \E page \in (0 - MaxPage)..MaxPage : handlePageChange(page)
  \/ HomeLink
  \/ BackToEntry
  \/ \E inputValue \in TypedValues : handleSubmit(inputValue)
  \/ \E i \in 1..Len(suggestions) : handleSuggestionClick(suggestions[i])
  \/ handleClearInput

Spec == Init /\ [][Next]_vars

\* The steps the application takes by itself: effects, timers and the
\* continuations of its requests.
SystemStep ==
  \/ UrlParamsEffect
  \/ ResultsPageEffect
  \/ \E req \in BagToSet(inflight) : \E data \in Responses : Resolve(req, data)
  \/ \E req \in BagToSet(inflight) : Reject(req)
  \/ \E healthy \in HealthAnswers : checkApiHealth(healthy)
  \/ AnimationTimer

\* The steps the user takes through the views.
UserStep ==
  \/ \E page \in (0 - MaxPage)..MaxPage : handlePageChange(page)
  \/ HomeLink
  \/ BackToEntry
  \/ \E inputValue \in TypedValues : handleSubmit(inputValue)
  \/ \E i \in 1..Len(suggestions) : handleSuggestionClick(suggestions[i])
  \/ handleClearInput

\* One URL load followed by at most one user action.
NextOneInput == SystemStep \/ (~userActed /\ UserStep)

\* A request in flight is answered or fails.
Settle ==
  \E req \in BagToSet(inflight) :
     \/ \E data \in Responses : Resolve(req, data)
     \/ Reject(req)

\* React runs the effects that are due, and every pending request settles.
OneInputSpec ==
  /\ Init
  /\ [][NextOneInput]_vars
  /\ WF_vars(UrlParamsEffect)
  /\ WF_vars(ResultsPageEffect)
  /\ WF_vars(Settle)

\* The query strings of the round trip through the URL: every one of these
\* characters alone and followed by a plus sign, a percent sign or a digit,
\* and a few longer strings.
QueryAlphabet == {"a", "2", "0", " ", "+", "%", "&", "="}

SpecialQueries ==
  {<<c>> : c \in QueryAlphabet}
    \cup {<<c, d>> : c \in QueryAlphabet, d \in {"+", "%", "2"}}
    \cup {<<"%", "2", "0">>, <<"a", "+", " ", "%">>, <<"a", "&", "page", "=", "2">>}

\* Searches for those strings, submitted from the search box.
NextUrlRoundTrip ==
  \/ UrlParamsEffect
  \/ ResultsPageEffect
  \/ \E req \in BagToSet(inflight) : \E data \in Responses : Resolve(req, data)
  \/ \E inputValue \in SpecialQueries : handleSubmit(inputValue)

UrlRoundTripSpec == Init /\ [][NextUrlRoundTrip]_vars

---------------------------------------------------------------------------
(* Properties. *)

\* C1: a search called with an empty or whitespace-only query, from any state,
\* leaves results empty, total 0 and suggestions empty, and dispatches no
\* request (the requests in flight and the loading flag are as before).
C1_BlankSearchClears ==
  [][(last'.kind = "call" /\ Trim(last'.query) = EmptyString)
       => /\ searchResults' = <<>>
          /\ totalResults' = 0
          /\ suggestions' = <<>>
          /\ inflight' = inflight
          /\ isLoading' = isLoading]_vars

\* performSearch was called with a whitespace-only query after an earlier
\* search had stored a page of results.
C1_Witness ==
  /\ last.kind = "call"
  /\ last.by = "performSearch"
  /\ last.query = <<" ">>
  /\ pageSize = 2
  /\ searchResults = <<>>

\* C2: at most one search request is in flight at any time.
C2_AtMostOneInFlight == BagCardinality(inflight) <= 1

\* C3: isLoading is true only while a dispatched search request has not yet
\* resolved or rejected; it is false before any dispatch and once every
\* request has settled.
C3_LoadingOnlyWhileInFlight == isLoading => BagCardinality(inflight) > 0

\* A search was dispatched and is loading; and the flag is down again after
\* the request settled (the second case is C4_Witness).
C3_Witness ==
  /\ isLoading
  /\ BagCardinality(inflight) = 1
  /\ last.kind = "call"
  /\ last.outcome = "dispatched"

\* C4: the step in which a search request resolves, rejects or has its
\* response handling throw ends with isLoading false.
C4_LoadingClearedOnSettle ==
  [][BagCardinality(inflight') < BagCardinality(inflight) => ~isLoading']_vars

\* The response handling threw, and the loading flag is down.
C4_Witness ==
  /\ last.kind = "settle"
  /\ last.outcome = "threw"
  /\ ~isLoading

\* The results a response carries (none when the field is absent).
ResponseResults(data) == IF "results" \in DOMAIN data THEN data.results ELSE <<>>

\* The stored results are the response's, in order, each with its derived url.
StoredFromResponse(data) ==
  /\ Len(searchResults) = Len(ResponseResults(data))
  /\ \A i \in 1..Len(searchResults) :
       /\ searchResults[i].id = ResponseResults(data)[i].id
       /\ searchResults[i].title = ResponseResults(data)[i].title
       /\ searchResults[i].url = WikiUrl(ResponseResults(data)[i].title)

\* C5 as stated: when a search request succeeds, results are the response's
\* results with their derived url, total is response.total (0 if absent),
\* currentPage is response.page (1 if absent), pageSize is response.page_size
\* (10 if absent), suggestions are response.suggest (empty if absent) and
\* apiHealthy is true.
C5_AsStated ==
  (last.kind = "settle" /\ last.outcome \in {"success", "threw"}) =>
    /\ StoredFromResponse(last.data)
    /\ totalResults = (IF "total" \in DOMAIN last.data THEN last.data.total ELSE 0)
    /\ currentPage = (IF "page" \in DOMAIN last.data THEN last.data.page ELSE 1)
    /\ pageSize = (IF "page_size" \in DOMAIN last.data THEN last.data.page_size ELSE 10)
    /\ suggestions = (IF "suggest" \in DOMAIN last.data THEN last.data.suggest ELSE <<>>)
    /\ apiHealthy

\* C5 (amended): when a search request succeeds and every result of the
\* response carries a title, results are the response's results with their
\* derived url, total is response.total (0 if absent), currentPage is
\* response.page (1 if absent or 0), pageSize is response.page_size (10 if
\* absent or 0), suggestions are response.suggest (empty if absent) and
\* apiHealthy is true.
C5_SuccessReplacesState ==
  (last.kind = "settle" /\ last.outcome = "success") =>
    /\ StoredFromResponse(last.data)
    /\ totalResults = (IF "total" \in DOMAIN last.data THEN last.data.total ELSE 0)
    /\ currentPage = (IF "page" \in DOMAIN last.data /\ last.data.page # 0
                      THEN last.data.page ELSE 1)
    /\ pageSize = (IF "page_size" \in DOMAIN last.data /\ last.data.page_size # 0
                   THEN last.data.page_size ELSE 10)
    /\ suggestions = (IF "suggest" \in DOMAIN last.data THEN last.data.suggest ELSE <<>>)
    /\ apiHealthy

\* A response with page 0 and page_size 0 was stored as page 1 of size 10,
\* while the health probe had reported the API down.
C5_Witness ==
  /\ last.kind = "settle"
  /\ last.outcome = "success"
  /\ "page" \in DOMAIN last.data
  /\ last.data.page = 0
  /\ last.data.page_size = 0
  /\ currentPage = 1
  /\ pageSize = 10
  /\ Len(searchResults) = 1

\* C6: when a search request fails, results are empty, total is 0 and
\* suggestions are empty, the loading flag is down and the promise of the
\* call is fulfilled, not rejected.
C6_FailureClears ==
  (last.kind = "settle" /\ last.outcome = "rejected") =>
    /\ searchResults = <<>>
    /\ totalResults = 0
    /\ suggestions = <<>>
    /\ ~isLoading
    /\ last.returned = "fulfilled"

\* A request was rejected after an earlier one had stored a page of two
\* results (pageSize 2 is only ever set by that response).
C6_Witness ==
  /\ last.kind = "settle"
  /\ last.outcome = "rejected"
  /\ pageSize = 2
  /\ searchResults = <<>>

\* C7: the number of stored results is at most the stored pageSize.
C7_ResultsFitPage == Len(searchResults) <= pageSize

\* C8: the stored currentPage is at least 1.
C8_PageAtLeastOne == currentPage >= 1

\* C9: once a navigating search started after a user action has settled, the
\* location is /results with the query, page and pageSize of that call.
C9_UserSearchSetsUrl ==
  (last.kind = "settle" /\ last.req.nav /\ userActed) =>
    /\ pathname = "/results"
    /\ searchParams.query = last.req.query
    /\ searchParams.page = NumberToString(last.req.page)
    /\ searchParams.pageSize = NumberToString(last.req.size)

\* C10: until the user acts, an application loaded with a non-empty query
\* parameter has at most one request outstanding, and that request is the
\* replay of the URL: its query, its page (default 1), its pageSize (default
\* 10), not navigating.
C10_OneReplayPerLoad ==
  (~userActed /\ Truthy(entryUrl.search.query)) =>
    /\ BagCardinality(inflight) <= 1
    /\ \A req \in BagToSet(inflight) :
         /\ ~req.nav
         /\ req.query = entryUrl.search.query
         /\ req.page = (IF Truthy(entryUrl.search.page)
                        THEN ParseInt(entryUrl.search.page) ELSE 1)
         /\ req.size = (IF Truthy(entryUrl.search.pageSize)
                        THEN ParseInt(entryUrl.search.pageSize) ELSE 10)

\* The behaviour is cut where an effect would exceed MaxInFlight requests.
CutAtBound == EffectsDue /\ BagCardinality(inflight) >= MaxInFlight

\* C11: after one URL load and at most one user action, the chain search ->
\* navigate -> URL effect -> search stops: from some point on no request is
\* outstanding (behaviours cut at the bound are not judged).
C11_ChainStops == <>[](inflight = EmptyBag \/ CutAtBound)

\* C12: the query of a navigating search, written into the URL by
\* URLSearchParams and read back from the location, is the identical string,
\* and the URL effect passes the string it read to the search unchanged.
C12_UrlRoundTrip ==
  [][/\ (last'.kind = "settle" /\ last'.outcome = "success" /\ last'.req.nav)
          => searchParams'.query = last'.req.query
     /\ (last'.kind = "call" /\ last'.by = "urlEffect")
          => last'.query = searchParams.query]_vars

\* The URL effect replayed a query of a space, a plus sign and a percent sign
\* that a navigating search had written into the URL.
C12_Witness ==
  /\ last.kind = "call"
  /\ last.by = "urlEffect"
  /\ last.query = <<"a", "+", " ", "%">>
  /\ userActed

\* C13: a call of fetchSuggestions with a text whose trimmed length is less
\* than 2, made directly or by the debounced fetcher, dispatches no request.
C13_ShortTextNoRequest ==
  [][(last'.kind = "fetch" /\ last'.outcome = "dispatched")
       => Len(Trim(last'.text)) >= 2]_vars

\* C14: fetchSuggestions never rejects, and when its request fails (or the
\* handling of the response throws) the stored suggestions are the empty list
\* and the call resolves to the empty list.
C14_FetchFailsClosed ==
  (last.kind = "fetchSettle") =>
    /\ last.promise = "fulfilled"
    /\ (last.outcome \in {"rejected", "threw"})
         => (suggestions = <<>> /\ last.value = <<>>)

\* The request of the debounced fetcher for ab failed: the list is empty and
\* the indicator of the search box is off.
C14_Witness ==
  /\ last.kind = "fetchSettle"
  /\ last.outcome = "rejected"
  /\ last.req = [text |-> <<"a", "b">>, by |-> "debounced"]
  /\ suggestions = <<>>
  /\ ~isFetchingSuggestions

\* C15: each keystroke cancels the timer that was pending, so after a
\* keystroke the only timer that can fire is the one that keystroke set, for
\* the value just typed.
C15_KeystrokeResetsTimer ==
  (last.kind = "keystroke" /\ timeoutId.pending) => timeoutId.value = last.value

\* C16: a step in which the health flag goes down changes nothing else of the
\* search state, and a performSearch with a non-blank query dispatches its
\* request whatever the health flag is.
C16_HealthNeverBlocks ==
  [][/\ (apiHealthy /\ ~apiHealthy')
          => UNCHANGED <<query, searchResults, totalResults, currentPage, pageSize,
                         isLoading, suggestions, hasProcessedUrlParams,
                         lastSearchQuery, pathname, searchParams, inflight>>
     /\ (last'.kind = "call" /\ last'.by = "performSearch"
           /\ Trim(last'.query) # EmptyString)
          => /\ last'.outcome = "dispatched"
             /\ BagCardinality(inflight') = BagCardinality(inflight) + 1]_vars

\* performSearch dispatched a request while the health probe had reported the
\* API down.
C16_Witness ==
  /\ ~apiHealthy
  /\ last.kind = "call"
  /\ last.by = "performSearch"
  /\ last.outcome = "dispatched"
  /\ BagCardinality(inflight) = 1

\* C17: after a successful search response every stored result carries the url
\* made of the base https://en.wikipedia.org/wiki/ and the title of the
\* response's result with every space replaced by an underscore and then
\* percent-encoded; for the title Cat it is the base followed by Cat.
C17_WikiUrlOfTitle ==
  (last.kind = "settle" /\ last.outcome = "success") =>
    /\ Len(searchResults) = Len(ResponseResults(last.data))
    /\ \A i \in 1..Len(searchResults) :
         LET title == ResponseResults(last.data)[i].title
         IN  /\ searchResults[i].url =
                  <<"https://en.wikipedia.org/wiki/">>
                    \o EncodeURIComponent(SpacesToUnderscores(title))
             /\ title = <<"C", "a", "t">>
                  => searchResults[i].url =
                       <<"https://en.wikipedia.org/wiki/", "C", "a", "t">>

\* The response listed Cat and T & J: their urls end in Cat and T_%26_J.
C17_Witness ==
  /\ last.kind = "settle"
  /\ last.outcome = "success"
  /\ Len(searchResults) = 2
  /\ searchResults[1].url = <<"https://en.wikipedia.org/wiki/", "C", "a", "t">>
  /\ searchResults[2].url =
       <<"https://en.wikipedia.org/wiki/", "T", "_", "%", "2", "6", "_", "J">>

\* The sentences of a text returned by extractTopSentences.
ShownSentences(out) == SelectSeq(SplitSentences(out), LAMBDA piece : Trim(piece) # <<>>)

\* C18: for every text and every count N from 0 on, the text that
\* extractTopSentences returns holds at most N sentences, and each of them is
\* at least 20 characters long, is at least 60% letters, has at most 3 markup
\* punctuation characters and at most 30% numbers and symbols, does not look
\* like code, a numbered list or a bullet point, and contains a common word.
C18_TopSentences ==
  (last.kind = "item") =>
    /\ Len(ShownSentences(textContent)) <= sentenceCount
    /\ \A k \in 1..Len(ShownSentences(textContent)) :
         LET shown == Trim(ShownSentences(textContent)[k])
         IN  /\ LongEnough(shown)
             /\ LetterRatioOk(shown)
             /\ FewMarkupChars(shown)
             /\ FewNumbersAndSymbols(shown)
             /\ ~LooksLikeCode(shown)
             /\ ~NumberedList(shown)
             /\ ~BulletPoint(shown)
             /\ hasCommonWords(shown)

\* Of three sentences that pass the filter, the first two were returned for a
\* count of 2.
C18_Witness ==
  /\ last.kind = "item"
  /\ resultText = SentencePlain \o SentencePet \o SentenceTamed
  /\ sentenceCount = 2
  /\ textContent =
       <<"T", "h", "e", " ", "c", "a", "t", " ", "i", "s", " ", "a", " ",
         "s", "m", "a", "l", "l", " ", "a", "n", "i", "m", "a", "l", ".",
         " ", "I", "t", " ", "i", "s", " ", "k", "e", "p", "t", " ", "a",
         "s", " ", "a", " ", "p", "e", "t", " ", "b", "y", " ", "p", "e",
         "o", "p", "l", "e", ".">>

\* C19: the text a result item displays holds no {{, no [[ and no <ref.
C19_NoResidualMarkup ==
  (last.kind = "item") =>
    \A i \in 1..Len(parsedHtml) :
       /\ ~StartsAt(parsedHtml, i, <<"{", "{">>)
       /\ ~StartsAt(parsedHtml, i, <<"[", "[">>)
       /\ ~StartsAt(parsedHtml, i, <<"<", "r", "e", "f">>)

\* C20: parseMediaWikiText returns to its caller on every input, with a text
\* that starts with a paragraph tag; when the parsing fails it returns the
\* input wrapped in a paragraph tag.
C20_ParseNeverThrows ==
  (last.kind = "parse") =>
    /\ StartsAt(parsedHtml, 1, <<"<", "p", ">">>)
    /\ resultText = Null => parsedHtml = <<"<", "p", ">", "n", "u", "l", "l",
                                           "<", "/", "p", ">">>

\* parseMediaWikiText was given null, on which html.replace throws.
C20_Witness ==
  /\ last.kind = "parse"
  /\ resultText = Null
  /\ parsedHtml = <<"<", "p", ">", "n", "u", "l", "l", "<", "/", "p", ">">>

\* C21: no response is discarded as stale.  Whenever a search request is
\* answered with a response that can be processed, whatever other requests
\* are outstanding or were answered before it, total, page, pageSize and
\* suggestions become those of that response and the results are its
\* results: the response that arrives last determines the state, also when it
\* answers the search that was issued first.
C21_LastArrivalWins ==
  [][(last'.kind = "settle" /\ last'.outcome \notin {"rejected", "threw"}) =>
       /\ Len(searchResults') = Len(ResponseResults(last'.data))
       /\ \A i \in 1..Len(searchResults') :
            searchResults'[i].id = ResponseResults(last'.data)[i].id
       /\ totalResults' = (IF "total" \in DOMAIN last'.data THEN last'.data.total ELSE 0)
       /\ currentPage' = (IF "page" \in DOMAIN last'.data /\ last'.data.page # 0
                          THEN last'.data.page ELSE 1)
       /\ pageSize' = (IF "page_size" \in DOMAIN last'.data /\ last'.data.page_size # 0
                       THEN last'.data.page_size ELSE 10)
       /\ suggestions' = (IF "suggest" \in DOMAIN last'.data
                          THEN last'.data.suggest ELSE <<>>)]_vars

\* The application was loaded with /results?query=ab&page=-1&pageSize=1.  The
\* URL effect issued the replay of that URL (the only request of size 1), then
\* the ResultsPage effect issued its search of size 10, which was answered
\* first and navigated (the URL now carries pageSize=10).  The answer to the
\* replay arrived after it and is what the state holds.
C21_Witness ==
  /\ ~userActed
  /\ last.kind = "settle"
  /\ last.outcome = "success"
  /\ last.req = [query |-> <<"a", "b">>, page |-> -1, size |-> 1, nav |-> FALSE]
  /\ searchParams.pageSize = <<"1", "0">>
  /\ "total" \in DOMAIN last.data
  /\ last.data.total = 3
  /\ totalResults = 3
  /\ pageSize = 2
  /\ suggestions = << <<"a", "b">> >>

\* C22: a search goes from idle to loading to success or failure and back to
\* idle, and nothing retries it.  The step that sends a request is a call of
\* performSearch or the URL effect and raises the loading flag; the step in
\* which a request is answered or fails lowers the flag, takes that one
\* request away and sends none; a failure leaves no effect due and changes
\* neither the URL nor the query; and the step after a failure sends a
\* request only when it is a call of performSearch.
C22_NoAutomaticRetry ==
  [][/\ BagCardinality(inflight') > BagCardinality(inflight) =>
          /\ isLoading'
          /\ last'.kind = "call"
          /\ last'.outcome = "dispatched"
          /\ last'.by \in {"performSearch", "urlEffect"}
          /\ BagCardinality(inflight') = BagCardinality(inflight) + 1
     /\ last'.kind = "settle" =>
          /\ ~isLoading'
          /\ inflight' (+) SetToBag({last'.req}) = inflight
     /\ (last'.kind = "settle" /\ last'.outcome \in {"rejected", "threw"}) =>
          /\ ~EffectsDue'
          /\ searchParams' = searchParams
          /\ pathname' = pathname
          /\ query' = query
     /\ (/\ last.kind = "settle"
         /\ last.outcome \in {"rejected", "threw"}
         /\ BagCardinality(inflight') > BagCardinality(inflight)) =>
          last'.by = "performSearch"]_vars

\* A request failed, the application is idle again, and nothing is due.
C22_Witness ==
  /\ last.kind = "settle"
  /\ last.outcome = "rejected"
  /\ inflight = EmptyBag
  /\ ~isLoading
  /\ ~EffectsDue
  /\ userActed
  /\ pathname = "/"

C24_LinksSurviveEarlierPasses ==
  (last.kind = "item" /\ Truthy(resultText)) =>
    textContent = extractTopSentences(RemoveInternalLinks(resultText), sentenceCount)


\* C25: the search state is written only by the provider's own operations.
\* query, currentPage and pageSize change only in a step in which the URL
\* effect runs or (page and size) a response is applied; results, total,
\* loading flag and suggestions change only in a step of performSearch or in
\* the continuation of its request; the health flag changes only when a
\* response is applied or in a step of checkApiHealth, which writes nothing
\* else.  No step of a view writes one of these fields by itself.
C25_OnlyProviderWrites ==
  [][/\ (query' # query) => (urlEffectDeps' # urlEffectDeps)
     /\ (currentPage' # currentPage \/ pageSize' # pageSize)
          => (urlEffectDeps' # urlEffectDeps \/ last'.kind = "settle")
     /\ (searchResults' # searchResults \/ totalResults' # totalResults
           \/ isLoading' # isLoading \/ suggestions' # suggestions)
          => (last'.kind \in {"call", "settle"})
     /\ (apiHealthy' # apiHealthy)
          => \/ last'.kind = "settle"
             \/ UNCHANGED <<query, searchResults, totalResults, currentPage,
                            pageSize, isLoading, suggestions, pathname,
                            searchParams>>
    ]_vars


\* C26: whenever at least one search request is outstanding, isLoading is
\* true; the completion of one request does not lower the flag while another
\* request is still in flight.
C26_LoadingWhileOutstanding == (inflight # EmptyBag) => isLoading


\* C27: after a search submitted from the search box completes, whether its
\* request succeeded or failed, the query of the state is the submitted
\* query.  A search dispatched by the user on a page at rest is the only
\* request outstanding; when it settles and leaves no effect to run, query is
\* the query that was searched for.
C27_QueryIsSubmittedQuery ==
  [][(/\ userActed
      /\ last.kind = "call"
      /\ last.by = "performSearch"
      /\ last.outcome = "dispatched"
      /\ ~EffectsDue
      /\ BagCardinality(inflight) = 1
      /\ last'.kind = "settle"
      /\ ~EffectsDue')
       => query' = last.query
    ]_vars


\* C28: a page change made through the pagination control preserves the page
\* size.  The step of handlePageChange leaves the pageSize parameter of the
\* URL as it is, and the search the page change triggers (the ResultsPage
\* effect runs next) asks for the chosen page with the pageSize of the state.
C28_PageChangeKeepsPageSize ==
  [][/\ (last'.kind = "pageChange")
          => searchParams'.pageSize = searchParams.pageSize
     /\ (last.kind = "pageChange" /\ last'.kind = "call"
           /\ last'.outcome = "dispatched")
          => (last'.page = last.page /\ last'.size = pageSize)
    ]_vars


---------------------------------------------------------------------------
(* Replay of a search from the URL the application is loaded with. *)

\* What the page and pageSize parameters of such a URL hold: nothing, zero,
\* a negative number, no number, a positive number.
ParamTexts == {Null, <<"0">>, <<"-", "1">>, <<"x">>, <<"2">>}

ReplayUrls ==
  { [pathname |-> "/results",
     search |-> [query |-> <<"a">>, page |-> p, pageSize |-> z]] :
       p \in ParamTexts, z \in ParamTexts }

ReplayInit ==
  /\ query = EmptyString
  /\ searchResults = <<>>
  /\ totalResults = 0
  /\ currentPage = 1
  /\ pageSize = 10
  /\ isLoading = FALSE
  /\ suggestions = <<>>
  /\ apiHealthy = TRUE
  /\ hasProcessedUrlParams = FALSE
  /\ lastSearchQuery = EmptyString
  /\ entryUrl \in ReplayUrls
  /\ pathname = entryUrl.pathname
  /\ searchParams = entryUrl.search
  /\ inflight = EmptyBag
  /\ renderedLoading = FALSE
  /\ urlEffectDeps = <<>>
  /\ resultsPageDeps = <<>>
  /\ isAnimating = TRUE
  /\ userActed = FALSE
  /\ last = NoStep
  /\ timeoutId = NoTimer
  /\ isFetchingSuggestions = FALSE
  /\ suggestInflight = EmptyBag
  /\ resultText = EmptyString
  /\ sentenceCount = 0
  /\ textContent = EmptyString
  /\ parsedHtml = EmptyString

NextReplay ==
  \/ UrlParamsEffect
  \/ ResultsPageEffect
  \/ Settle

UrlReplaySpec == ReplayInit /\ [][NextReplay]_vars

\* C29: when the provider replays a search from the URL, the page and the
\* page size its request asks for are the currentPage and the pageSize it
\* stored from that URL, whatever the page and pageSize parameters hold.
C29_ReplaySendsStoredPage ==
  (last.kind = "call" /\ last.by = "urlEffect" /\ last.outcome = "dispatched")
    => (last.page = currentPage /\ last.size = pageSize)


---------------------------------------------------------------------------
(* Pagination, rendered for the totals, page sizes and pages of a search. *)

MaxTotalResults == 25

PageSizes == {1, 2, 10}

\* What Pagination renders: nothing, or its page buttons.
Rendered(shown, totalPages, range) ==
  [kind |-> "pagination", shown |-> shown, totalPages |-> totalPages,
   pageRange |-> range]

PaginationInit ==
  /\ query = <<"a">>
  /\ searchResults = <<Cat>>
  /\ totalResults \in 0..MaxTotalResults
  /\ currentPage \in 1..MaxTotalResults
  /\ pageSize \in PageSizes
  /\ isLoading \in BOOLEAN
  /\ suggestions = <<>>
  /\ apiHealthy = TRUE
  /\ hasProcessedUrlParams = TRUE
  /\ lastSearchQuery = <<"a">>
  /\ entryUrl = [pathname |-> "/results",
                 search |-> [query |-> <<"a">>, page |-> Null, pageSize |-> Null]]
  /\ pathname = entryUrl.pathname
  /\ searchParams = entryUrl.search
  /\ inflight = EmptyBag
  /\ renderedLoading = isLoading
  /\ urlEffectDeps = <<searchParams>>
  /\ resultsPageDeps = <<query, UrlPage(searchParams)>>
  /\ isAnimating = FALSE
  /\ userActed = FALSE
  /\ last = NoStep
  /\ timeoutId = NoTimer
  /\ isFetchingSuggestions = FALSE
  /\ suggestInflight = EmptyBag
  /\ resultText = EmptyString
  /\ sentenceCount = 0
  /\ textContent = EmptyString
  /\ parsedHtml = EmptyString

\* Pagination renders: null when totalPages <= 1 || isLoading, else the
\* buttons of getPageRange().
RenderPagination ==
  /\ last.kind = "none"
  /\ last' = IF TotalPages <= 1 \/ isLoading
             THEN Rendered(FALSE, TotalPages, <<>>)
             ELSE Rendered(TRUE, TotalPages, pageRange)
  /\ UNCHANGED <<query, searchResults, totalResults, currentPage, pageSize,
                 isLoading, suggestions, apiHealthy, hasProcessedUrlParams,
                 lastSearchQuery, pathname, searchParams, entryUrl, inflight,
                 renderedLoading, urlEffectDeps, resultsPageDeps, isAnimating,
                 userActed>>
  /\ UNCHANGED suggestVars
  /\ UNCHANGED itemVars

PaginationSpec == PaginationInit /\ [][RenderPagination]_vars

\* C30: for every totalPages > 1 and every currentPage in 1..totalPages, the
\* page range Pagination offers is a contiguous ascending run of exactly
\* min(10, totalPages) page numbers, all within 1..totalPages, that contains
\* currentPage.
C30_PageRange ==
  (last.kind = "pagination" /\ last.shown /\ currentPage \in 1..last.totalPages) =>
    LET range == last.pageRange
    IN  /\ Len(range) = Min(10, last.totalPages)
        /\ \A i \in 1..(Len(range) - 1) : range[i + 1] = range[i] + 1
        /\ \A i \in 1..Len(range) : range[i] \in 1..last.totalPages
        /\ \E i \in 1..Len(range) : range[i] = currentPage

\* The last of 25 pages is shown with the pages 16 to 25.
C30_Witness ==
  /\ last.kind = "pagination"
  /\ last.shown
  /\ last.totalPages = 25
  /\ currentPage = 25
  /\ last.pageRange = <<16, 17, 18, 19, 20, 21, 22, 23, 24, 25>>

====
